---- MODULE Spec2Model ----
(***************************************************************************)
(* A model of bin/sims_abundance.py: the abundance aggregation of expanded *)
(* similarity files in its three modes (md5, lca, source), the optional    *)
(* abundance and index lookups, and the three report writers.              *)
(*                                                                         *)
(* Representation.                                                         *)
(*  - A text (a Python str) is a sequence of one-character strings, so    *)
(*    that parsing, splitting and formatting are computed, not assumed.    *)
(*  - A line is the sequence of its tab-separated raw fields; Parts is     *)
(*    line.strip().split('\t').                                            *)
(*  - A float as float() reads it and str() writes it is a decimal value  *)
(*    m * 10^x  (FFin), or inf / nan.                                      *)
(*  - A float in arithmetic is a binary value  m * 2^e  (m its bits), and  *)
(*    every operation rounds as the machine does: the sums esum, lsum,     *)
(*    isum to np.float32, everything else to a double.                     *)
(*                                                                         *)
(* Spec is a run of main; SpecAmap is the loading of the abundance map on  *)
(* its own; SpecCalls calls single functions of the script on arguments    *)
(* drawn from bounded sets.                                                *)
(***************************************************************************)
EXTENDS Integers, Sequences, FiniteSets, TLC

VARIABLES
    mode,       \* args.type
    pc,         \* position of the run: "start", "read", "done", "aborted"
    side,       \* the optional files: coverage, cluster files, md5 index
    amap,       \* abundance_map's defaultdict(int): fragment text -> weight
    imap,       \* index_map's array, or None
    fileno,     \* index in InputFiles of the input file being read
    stream,     \* the input lines read so far, over all input files
    prev_frag,  \* prev_frag
    frag_keys,  \* frag_keys
    data,       \* data: key -> Stats (md5, lca) or the two histograms (source)
    md5s,       \* md5s: lca -> count of checksum tokens
    SOURCES,    \* the global SOURCES set
    out,        \* rows written to the output file
    call,       \* what is called: main, or one function of the script on its own
    ret         \* the value that function returned

vars == << mode, pc, side, amap, imap, fileno, stream,
           prev_frag, frag_keys, data, md5s, SOURCES, out, call, ret >>

----------------------------------------------------------------------------
(* Texts *)

\* index_map's result without an index file
None == [isfile |-> FALSE, rows |-> << >>]

Digits == {"0", "1", "2", "3", "4", "5", "6", "7", "8", "9"}

DigitVal(c) ==
    CASE c = "0" -> 0 [] c = "1" -> 1 [] c = "2" -> 2 [] c = "3" -> 3
      [] c = "4" -> 4 [] c = "5" -> 5 [] c = "6" -> 6 [] c = "7" -> 7
      [] c = "8" -> 8 [] c = "9" -> 9

DigitChar(d) ==
    CASE d = 0 -> "0" [] d = 1 -> "1" [] d = 2 -> "2" [] d = 3 -> "3"
      [] d = 4 -> "4" [] d = 5 -> "5" [] d = 6 -> "6" [] d = 7 -> "7"
      [] d = 8 -> "8" [] d = 9 -> "9"

IsDigits(t) == \A i \in 1..Len(t) : t[i] \in Digits

RECURSIVE DigitsVal(_)
DigitsVal(t) ==
    IF t = << >> THEN 0
    ELSE 10 * DigitsVal(SubSeq(t, 1, Len(t) - 1)) + DigitVal(t[Len(t)])

RECURSIVE NatText(_)
NatText(n) ==
    IF n < 10 THEN << DigitChar(n) >>
    ELSE NatText(n \div 10) \o << DigitChar(n % 10) >>

\* str(n) of an integer
IntText(n) == IF n < 0 THEN << "-" >> \o NatText(-n) ELSE NatText(n)

RECURSIVE Pow10(_)
Pow10(n) == IF n <= 0 THEN 1 ELSE 10 * Pow10(n - 1)

\* the positions of character c in text t
Positions(t, c) == { i \in 1..Len(t) : t[i] = c }

\* t.split(c): the pieces of t between the occurrences of c
RECURSIVE Split(_, _)
Split(t, c) ==
    IF Positions(t, c) = {} THEN << t >>
    ELSE LET i == CHOOSE j \in Positions(t, c) : \A k \in Positions(t, c) : j <= k
         IN  << SubSeq(t, 1, i - 1) >> \o Split(SubSeq(t, i + 1, Len(t)), c)

\* the vertical tab, '\x0b'
VT == ""

\* the characters that strip(), int() and float() take for whitespace
Whitespace == { "\t", "\n", VT, "\f", "\r", " " }

\* Python's ordering of two texts: the code point order of the characters
\* the model uses (whitespace < digits < upper case < lower case)
Alphabet ==
    << "\t", "\n", VT, "\f", "\r", " ",
       "0", "1", "2", "3", "4", "5", "6", "7", "8", "9",
       "A", "B", "E", "K", "L", "S", "X", "Y", "Z",
       "a", "b", "f", "k", "s", "x", "y", "z" >>

Ord(c) == CHOOSE i \in 1..Len(Alphabet) : Alphabet[i] = c

RECURSIVE TextLess(_, _)
TextLess(a, b) ==
    IF b = << >> THEN FALSE
    ELSE IF a = << >> THEN TRUE
    ELSE IF a[1] # b[1] THEN Ord(a[1]) < Ord(b[1])
    ELSE TextLess(Tail(a), Tail(b))

\* sorted(S) for a set S of texts
RECURSIVE Sorted(_)
Sorted(S) ==
    IF S = {} THEN << >>
    ELSE LET lo == CHOOSE a \in S : \A b \in S \ {a} : TextLess(a, b)
         IN  << lo >> \o Sorted(S \ {lo})

\* t.lstrip(), t.rstrip() and t.strip() of a text
LStrip(t) ==
    LET ns == { i \in 1..Len(t) : t[i] \notin Whitespace }
    IN  IF ns = {} THEN << >>
        ELSE SubSeq(t, CHOOSE i \in ns : \A j \in ns : i <= j, Len(t))

RStrip(t) ==
    LET ns == { i \in 1..Len(t) : t[i] \notin Whitespace }
    IN  IF ns = {} THEN << >>
        ELSE SubSeq(t, 1, CHOOSE i \in ns : \A j \in ns : j <= i)

Strip(t) == RStrip(LStrip(t))

\* line.strip().split('\t') of a line given as its raw fields (the texts
\* between its tabs): strip() removes the whitespace at both ends of the
\* line, the tab being whitespace, hence the leading and trailing fields
\* that hold whitespace only, and the whitespace at the outer ends of the
\* first and the last field left; a line of whitespace only splits into
\* one empty field
RECURSIVE StripLeft(_)
StripLeft(raw) ==
    IF raw = << >> THEN raw
    ELSE IF LStrip(Head(raw)) = << >> THEN StripLeft(Tail(raw))
    ELSE << LStrip(Head(raw)) >> \o Tail(raw)

RECURSIVE StripRight(_)
StripRight(raw) ==
    IF raw = << >> THEN raw
    ELSE IF RStrip(raw[Len(raw)]) = << >> THEN StripRight(SubSeq(raw, 1, Len(raw) - 1))
    ELSE SubSeq(raw, 1, Len(raw) - 1) \o << RStrip(raw[Len(raw)]) >>

Parts(raw) ==
    LET s == StripRight(StripLeft(raw))
    IN  IF s = << >> THEN << << >> >> ELSE s

----------------------------------------------------------------------------
(* int() and float() of a text, str() of a float *)

Bad == [ok |-> FALSE]

\* an optional sign and digits with nothing between them, as float() reads
\* an exponent, else Bad
SignedDigits(t) ==
    LET signed == t # << >> /\ t[1] \in {"-", "+"}
        body   == IF signed THEN Tail(t) ELSE t
    IN  IF body # << >> /\ IsDigits(body)
        THEN [ok |-> TRUE,
              v  |-> IF signed /\ t[1] = "-" THEN -DigitsVal(body) ELSE DigitsVal(body)]
        ELSE Bad

\* int(s) of a text s without whitespace around it: an optional sign and
\* digits, else ValueError (Bad); Python 2 skips the whitespace between the
\* sign and the digits, so that int('- 5') is -5
IntOfText(s) ==
    LET signed == s # << >> /\ s[1] \in {"-", "+"}
        body   == IF signed THEN LStrip(Tail(s)) ELSE s
    IN  IF body # << >> /\ IsDigits(body)
        THEN [ok |-> TRUE,
              v  |-> IF signed /\ s[1] = "-" THEN -DigitsVal(body) ELSE DigitsVal(body)]
        ELSE Bad

\* int(t): whitespace is allowed around the number; the stripped text is
\* computed once
ParseInt(t) == CHOOSE r \in { IntOfText(s) : s \in {Strip(t)} } : TRUE

FNan == [k |-> "nan"]
FInf(neg) == [k |-> "inf", neg |-> neg]

\* the float m * 10^x, normalised: no trailing zero in m, zero is 0 * 10^0
RECURSIVE FFin(_, _, _)
FFin(neg, m, x) ==
    IF m = 0 THEN [k |-> "fin", neg |-> neg, m |-> 0, x |-> 0]
    ELSE IF m % 10 = 0 THEN FFin(neg, m \div 10, x + 1)
    ELSE [k |-> "fin", neg |-> neg, m |-> m, x |-> x]

\* c.lower() of a letter of "infinity" and "nan"
Lower(c) ==
    CASE c = "I" -> "i" [] c = "N" -> "n" [] c = "F" -> "f" [] c = "T" -> "t"
      [] c = "Y" -> "y" [] c = "A" -> "a" [] OTHER -> c

\* The range of a double.  A decimal with the leading digit at 10^X rounds
\* to inf from (2 - 2^-53) * 2^1023 = 1.797693134862315807...e308 on and
\* to zero up to 2^-1075 = 2.470328229206232720...e-324; DblMaxExp and
\* DblMinExp are these X, DblMaxLead the first ten digits of the one and
\* DblMinLead the first nine digits of the other.
DblMaxExp == 308
DblMaxLead == 1797693134
DblMinExp == -324
DblMinLead == 247032822

\* the double nearest the decimal f (of at most ten digits, and less than
\* 2^31), as a decimal: inf and 0.0 beyond the range, else f itself, which
\* str() prints back digit for digit.  (Between 2^-1075 and 2^-1022 a
\* double keeps fewer digits than f has; the model has no text of such a
\* value.)
RoundDecimal(f) ==
    LET n     == Len(NatText(f.m))
        X     == f.x + n - 1
        lead9 == IF n > 9 THEN f.m \div 10 ELSE f.m * Pow10(9 - n)
        over  == IF n > 9 THEN f.m > DblMaxLead ELSE lead9 > DblMaxLead \div 10
    IN  IF f.m = 0 THEN f
        ELSE IF X > DblMaxExp \/ (X = DblMaxExp /\ over) THEN FInf(f.neg)
        ELSE IF X < DblMinExp \/ (X = DblMinExp /\ lead9 <= DblMinLead)
        THEN [k |-> "fin", neg |-> f.neg, m |-> 0, x |-> 0]
        ELSE f

\* float(s) of a text s without whitespace around it: [sign] digits
\* [. digits] [e [sign] digits], or inf, infinity or nan in any case with an
\* optional sign, else ValueError (Bad)
FloatOfText(s) ==
    LET signed == s # << >> /\ s[1] \in {"-", "+"}
        neg    == signed /\ s[1] = "-"
        body   == IF signed THEN Tail(s) ELSE s
        low    == [i \in 1..Len(body) |-> Lower(body[i])]
        es     == Positions(body, "e") \cup Positions(body, "E")
        ePos   == IF es = {} THEN Len(body) + 1 ELSE CHOOSE i \in es : TRUE
        mant   == SubSeq(body, 1, ePos - 1)
        expo   == SubSeq(body, ePos + 1, Len(body))
        dots   == Positions(mant, ".")
        dPos   == IF dots = {} THEN Len(mant) + 1 ELSE CHOOSE i \in dots : TRUE
        ip     == SubSeq(mant, 1, dPos - 1)
        fp     == SubSeq(mant, dPos + 1, Len(mant))
        ex     == IF es = {} THEN [ok |-> TRUE, v |-> 0] ELSE SignedDigits(expo)
    IN  IF low = <<"n","a","n">> THEN [ok |-> TRUE, v |-> FNan]
        ELSE IF low \in { <<"i","n","f">>, <<"i","n","f","i","n","i","t","y">> }
        THEN [ok |-> TRUE, v |-> FInf(neg)]
        ELSE IF /\ Cardinality(es) <= 1
                /\ Cardinality(dots) <= 1
                /\ IsDigits(ip) /\ IsDigits(fp)
                /\ Len(ip) + Len(fp) >= 1
                /\ ex.ok
             THEN [ok |-> TRUE,
                   v  |-> CHOOSE r \in { RoundDecimal(f) :
                                       f \in {FFin(neg, DigitsVal(ip \o fp), ex.v - Len(fp))} } : TRUE]
             ELSE Bad

\* float(t): whitespace is allowed around the number
ParseFloat(t) == CHOOSE r \in { FloatOfText(s) : s \in {Strip(t)} } : TRUE

\* significant digits of str() of a float
StrPrecision == 12

\* str(f) of a float (Python 2: '%.12g', with '.0' added to an integer; the
\* room kept for the '.0' starts the exponent notation one digit early, at
\* the decimal exponent StrPrecision - 1)
FloatText(f) ==
    IF f.k = "nan" THEN <<"n","a","n">>
    ELSE IF f.k = "inf" THEN (IF f.neg THEN <<"-">> ELSE << >>) \o <<"i","n","f">>
    ELSE
    LET ds   == NatText(f.m)
        n    == Len(ds)
        X    == f.x + n - 1                     \* exponent of the leading digit
        sign == IF f.neg THEN <<"-">> ELSE << >>
        zeros(k) == [i \in 1..k |-> "0"]
    IN  IF f.m = 0 THEN sign \o <<"0", ".", "0">>
        ELSE IF X < -4 \/ X >= StrPrecision - 1
        THEN sign \o << ds[1] >>
                  \o (IF n > 1 THEN <<".">> \o Tail(ds) ELSE << >>)
                  \o <<"e">> \o (IF X < 0 THEN <<"-">> ELSE <<"+">>)
                  \o (IF (IF X < 0 THEN -X ELSE X) < 10 THEN <<"0">> ELSE << >>)
                  \o NatText(IF X < 0 THEN -X ELSE X)
        ELSE IF f.x >= 0 THEN sign \o ds \o zeros(f.x) \o <<".", "0">>
        ELSE IF X >= 0
        THEN sign \o SubSeq(ds, 1, n + f.x) \o <<".">> \o SubSeq(ds, n + f.x + 1, n)
        ELSE sign \o <<"0", ".">> \o zeros(-X - 1) \o ds

----------------------------------------------------------------------------
(* Binary floating point: the np.float32 sums and the Python floats        *)
(* (doubles) of the script.  Every operation is the exact result rounded   *)
(* to the nearest value of 24 or 53 significant bits, ties to even.        *)
(* Exponents stay far from the limits of both formats within the model.    *)

\* significant bits of np.float32 and of a Python float
Bits32 == 24
Bits64 == 53

\* a natural number as its bits, lowest first, the highest bit 1
RECURSIVE BitsOf(_)
BitsOf(n) == IF n = 0 THEN << >> ELSE << n % 2 >> \o BitsOf(n \div 2)

RECURSIVE NatOf(_)
NatOf(b) == IF b = << >> THEN 0 ELSE Head(b) + 2 * NatOf(Tail(b))

\* b without its leading zeros
Trim(b) ==
    LET ones == { j \in 1..Len(b) : b[j] = 1 }
    IN  IF ones = {} THEN << >>
        ELSE SubSeq(b, 1, CHOOSE j \in ones : \A i \in ones : i <= j)

\* b * 2^k
Shl(b, k) == IF b = << >> THEN b ELSE [j \in 1..k |-> 0] \o b

\* b to n bits
Pad(b, n) == b \o [j \in 1..(n - Len(b)) |-> 0]

\* a + b + c of two numbers of the same number of bits (at least one) and a
\* carry c: the bits of the sum and the carry out, halving the bits
RECURSIVE AddBits(_, _, _)
AddBits(a, b, c) ==
    IF Len(a) = 1
    THEN [s |-> << (a[1] + b[1] + c) % 2 >>, c |-> (a[1] + b[1] + c) \div 2]
    ELSE LET h  == Len(a) \div 2
             lo == AddBits(SubSeq(a, 1, h), SubSeq(b, 1, h), c)
             hi == AddBits(SubSeq(a, h + 1, Len(a)), SubSeq(b, h + 1, Len(a)), lo.c)
         IN  [s |-> lo.s \o hi.s, c |-> hi.c]

BAdd(a, b) ==
    LET n == IF Len(a) < Len(b) THEN Len(b) ELSE Len(a)
        r == AddBits(Pad(a, n), Pad(b, n), 0)
    IN  IF a = << >> THEN b ELSE IF b = << >> THEN a ELSE Trim(r.s \o << r.c >>)

\* a <= b
BLeq(a, b) ==
    \/ Len(a) < Len(b)
    \/ /\ Len(a) = Len(b)
       /\ \/ a = b
          \/ \E i \in 1..Len(a) : a[i] < b[i] /\ \A j \in (i + 1)..Len(a) : a[j] = b[j]

\* a - b for b <= a: a plus the complement of b plus 1, less the carry
BSub(a, b) ==
    LET n == Len(a)
        r == AddBits(a, [j \in 1..n |-> 1 - Pad(b, n)[j]], 1)
    IN  IF b = << >> THEN a ELSE Trim(r.s)

RECURSIVE BMul(_, _)
BMul(a, b) ==
    IF a = << >> \/ b = << >> THEN << >>
    ELSE IF Len(a) = 1 THEN (IF a[1] = 1 THEN b ELSE << >>)
    ELSE LET h == Len(a) \div 2
         IN  BAdd(BMul(SubSeq(a, 1, h), b), Shl(BMul(SubSeq(a, h + 1, Len(a)), b), h))

\* the bits a below a remainder r of the higher bits, divided by d: the
\* bits of the quotient and the remainder, halving the bits
RECURSIVE DivBits(_, _, _)
DivBits(a, d, r) ==
    IF Len(a) = 1
    THEN LET r2 == 2 * r + a[1]
         IN  IF r2 >= d THEN [q |-> <<1>>, r |-> r2 - d] ELSE [q |-> <<0>>, r |-> r2]
    ELSE LET h  == Len(a) \div 2
             hi == DivBits(SubSeq(a, h + 1, Len(a)), d, r)
             \* the higher bits are divided first
             hl == << hi, DivBits(SubSeq(a, 1, h), d, hi.r) >>
         IN  [q |-> hl[2].q \o hl[1].q, r |-> hl[2].r]

\* quotient and remainder of a by an integer 0 < d < 2^30
BDivInt(a, d) ==
    IF a = << >> THEN [q |-> << >>, r |-> 0]
    ELSE [q |-> Trim(DivBits(a, d, 0).q), r |-> DivBits(a, d, 0).r]

\* the float (-1)^neg * m * 2^e for the bits m: m is odd, and zero is 0 * 2^0
BinZero == [k |-> "bin", neg |-> FALSE, m |-> << >>, e |-> 0]

BinNorm(neg, m, e) ==
    LET t == Trim(m)
        z == CHOOSE j \in 0..Len(t) : /\ j < Len(t) => t[j + 1] = 1
                                      /\ \A i \in 1..j : t[i] = 0
    IN  IF t = << >> THEN BinZero
        ELSE [k |-> "bin", neg |-> neg, m |-> SubSeq(t, z + 1, Len(t)), e |-> e + z]

\* (-1)^neg * (m + f) * 2^e rounded to p significant bits, where 0 <= f < 1
\* and sticky tells f > 0; with sticky, m has at least p + 2 bits
RoundBits(p, neg, m, e, sticky) ==
    LET t    == Trim(m)
        n    == Len(t) - p
        keep == SubSeq(t, n + 1, Len(t))
        rest == sticky \/ \E j \in 1..(n - 1) : t[j] = 1
        up   == t[n] = 1 /\ (rest \/ keep[1] = 1)
    IN  IF n <= 0 THEN BinNorm(neg, t, e)
        ELSE BinNorm(neg, IF up THEN BAdd(keep, <<1>>) ELSE keep, e + n)

\* float(n) of an integer n
BinOfInt(n) == BinNorm(n < 0, BitsOf(IF n < 0 THEN -n ELSE n), 0)

\* b / 10^k for the bits b: the quotient and whether a remainder is left
RECURSIVE DivPow10(_, _)
DivPow10(b, k) ==
    IF k = 0 THEN [q |-> b, sticky |-> FALSE]
    ELSE LET step == IF k > 9 THEN 9 ELSE k
             d    == BDivInt(b, Pow10(step))
             rest == DivPow10(d.q, k - step)
         IN  [q |-> rest.q, sticky |-> rest.sticky \/ d.r # 0]

RECURSIVE MulPow10(_, _)
MulPow10(b, k) == IF k = 0 THEN b ELSE MulPow10(BAdd(Shl(b, 1), Shl(b, 3)), k - 1)

\* float(t) as a double, for the parsed finite decimal f = m * 10^x
BinOfDecimal(f) ==
    IF f.x >= 0 THEN RoundBits(Bits64, f.neg, MulPow10(BitsOf(f.m), f.x), 0, FALSE)
    ELSE LET s == Bits64 + 3 + 4 * (-f.x)
             d == DivPow10(Shl(BitsOf(f.m), s), -f.x)
         IN  RoundBits(Bits64, f.neg, d.q, -s, d.sticky)

\* a zero
IsZero(a) == a.k = "bin" /\ a.m = << >>

\* the double of a parsed float
Double(f) == IF f.k = "fin" THEN BinOfDecimal(f) ELSE f

\* a * b and a + b of two doubles
BinMul(a, b) ==
    IF a.k = "nan" \/ b.k = "nan" THEN FNan
    ELSE IF a.k = "inf" \/ b.k = "inf"
    THEN (IF IsZero(a) \/ IsZero(b) THEN FNan ELSE FInf(a.neg # b.neg))
    ELSE RoundBits(Bits64, a.neg # b.neg, BMul(a.m, b.m), a.e + b.e, FALSE)

BinAdd(a, b) ==
    LET g == IF a.e < b.e THEN a.e ELSE b.e
        x == Shl(a.m, a.e - g)
        y == Shl(b.m, b.e - g)
    IN  IF a.k = "nan" \/ b.k = "nan" THEN FNan
        ELSE IF a.k = "inf" THEN (IF b.k = "inf" /\ a.neg # b.neg THEN FNan ELSE a)
        ELSE IF b.k = "inf" THEN b
        ELSE IF a.neg = b.neg THEN RoundBits(Bits64, a.neg, BAdd(x, y), g, FALSE)
        ELSE IF BLeq(y, x) THEN RoundBits(Bits64, a.neg, BSub(x, y), g, FALSE)
        ELSE RoundBits(Bits64, b.neg, BSub(y, x), g, FALSE)

\* a / n of a double and an integer 0 < n < 2^30
BinDivInt(a, n) ==
    LET s == Bits64 + 2 + Len(BitsOf(n))
        d == BDivInt(Shl(a.m, s), n)
    IN  IF a.k # "bin" THEN a ELSE RoundBits(Bits64, a.neg, d.q, a.e - s, d.r # 0)

\* the np.float32 nearest a double
Float32(a) == IF a.k # "bin" THEN a ELSE RoundBits(Bits32, a.neg, a.m, a.e, FALSE)

\* math.ceil of a finite double, as an integer
Ceil(a) ==
    LET fl == NatOf(SubSeq(a.m, 1 - a.e, Len(a.m)))
    IN  IF a.e >= 0 THEN (IF a.neg THEN -1 ELSE 1) * NatOf(Shl(a.m, a.e))
        ELSE IF a.neg THEN -fl ELSE fl + 1

----------------------------------------------------------------------------
(* Constants of the script *)

EVALS == << -5, -10, -20, -30, -1000 >>
IDENTS == << 60, 80, 90, 97, 100 >>
TYPES == << "md5", "lca", "source" >>

\* the np.uint8 field lvl wraps (the np.uint32 abun stays far below 2^32
\* within the bounds of the model)
Uint8 == 256
\* print_md5_stats: "length must be less than or equal to 2147483647"
MaxIndexLength == 2147483647
\* str_round: math.ceil(val * 1000) / 1000
Unit == 1000

----------------------------------------------------------------------------
(* Numeric helpers of the script *)

\* ev_re.match(t): ^(\d(\.\d)?)e([-+])?0?(\d+)$ ; the groups 3 and 4
EvMatch(t) ==
    LET hasFrac == Len(t) >= 3 /\ t[2] = "."
        ePos    == IF hasFrac THEN 4 ELSE 2
        sPos    == ePos + 1
        hasSign == Len(t) >= sPos /\ t[sPos] \in {"-", "+"}
        rest    == SubSeq(t, IF hasSign THEN sPos + 1 ELSE sPos, Len(t))
        g4      == IF Len(rest) >= 2 /\ rest[1] = "0" THEN Tail(rest) ELSE rest
    IN  IF /\ Len(t) >= ePos
           /\ t[1] \in Digits
           /\ (hasFrac => t[3] \in Digits)
           /\ t[ePos] = "e"
           /\ rest # << >> /\ IsDigits(rest)
        THEN [ok |-> TRUE, g3 |-> IF hasSign THEN t[sPos] ELSE "", g4 |-> g4]
        ELSE Bad

\* an exponent that forgets the sign of the exponent form
ExponentOfTextUnsigned(t) ==
    LET m == EvMatch(t)
        p == Split(t, ".")
    IN  IF ~m.ok
        THEN IF Len(p) = 2 THEN [ok |-> TRUE, v |-> -Len(p[2])] ELSE Bad
        ELSE [ok |-> TRUE, v |-> DigitsVal(m.g4)]

\* get_exponent from str(e_val) on: the exponent form, else the digits after
\* the one '.', else the fatal exit (Bad)
ExponentOfText(t) ==
    LET m == EvMatch(t)
        p == Split(t, ".")
    IN  IF ~m.ok
        THEN IF Len(p) = 2 THEN [ok |-> TRUE, v |-> -Len(p[2])] ELSE Bad
        ELSE IF m.g3 = "-" THEN [ok |-> TRUE, v |-> -DigitsVal(m.g4)]
        ELSE [ok |-> TRUE, v |-> DigitsVal(m.g4)]

\* get_exponent(e_val) for a float e_val
get_exponent(e_val) ==
    IF e_val.k = "fin" /\ e_val.m = 0 THEN [ok |-> TRUE, v |-> 0]
    ELSE ExponentOfText(FloatText(e_val))

\* a binning without the special case of the exponent 0
get_e_bin_plain(val) ==
    IF val < EVALS[Len(EVALS)] THEN EVALS[Len(EVALS)]
    ELSE EVALS[CHOOSE j \in 1..Len(EVALS) :
                   /\ val >= EVALS[j]
                   /\ \A k \in 1..(j - 1) : ~(val >= EVALS[k])]

get_e_bin(val) ==
    IF val = 0 \/ val < EVALS[Len(EVALS)] THEN EVALS[Len(EVALS)]
    ELSE IF \E j \in 1..Len(EVALS) : val >= EVALS[j]
    THEN EVALS[CHOOSE j \in 1..Len(EVALS) :
                   /\ val >= EVALS[j]
                   /\ \A k \in 1..(j - 1) : ~(val >= EVALS[k])]
    ELSE EVALS[1]

\* val <= i for a float val and an integer i
FloatLeqInt(val, i) ==
    CASE val.k = "nan" -> FALSE
      [] val.k = "inf" -> val.neg
      [] OTHER ->
           LET sm == IF val.neg THEN -val.m ELSE val.m
           IN  IF val.x >= 0 THEN sm * Pow10(val.x) <= i
               ELSE sm <= i * Pow10(-val.x)

\* a binning that compares with < where the code compares with <=
get_i_bin_strict(val) ==
    LET Lt(j) == FloatLeqInt(val, IDENTS[j])
                   /\ ~(val.k = "fin" /\ val = FFin(FALSE, IDENTS[j], 0))
    IN  IF \E j \in 1..Len(IDENTS) : Lt(j)
        THEN IDENTS[CHOOSE j \in 1..Len(IDENTS) :
                        Lt(j) /\ \A k \in 1..(j - 1) : ~Lt(k)]
        ELSE IDENTS[1]

get_i_bin(val) ==
    IF \E j \in 1..Len(IDENTS) : FloatLeqInt(val, IDENTS[j])
    THEN IDENTS[CHOOSE j \in 1..Len(IDENTS) :
                    /\ FloatLeqInt(val, IDENTS[j])
                    /\ \A k \in 1..(j - 1) : ~FloatLeqInt(val, IDENTS[k])]
    ELSE IDENTS[1]

get_abundance(frag, am) == IF frag \in DOMAIN am THEN am[frag] ELSE 1

\* "%.3f" of c thousandths; negZero: the value is the float -0.0
Fixed3Text(c, negZero) ==
    LET a == IF c < 0 THEN -c ELSE c
        f == a % Unit
    IN  (IF c < 0 \/ negZero THEN <<"-">> ELSE << >>)
        \o NatText(a \div Unit) \o <<".">>
        \o << DigitChar(f \div 100), DigitChar((f \div 10) % 10), DigitChar(f % 10) >>

\* stats['esum'] / stats['abun'] of a np.float32 sum and a np.uint32 count,
\* a double: 0.0 / 0 is nan and x / 0 is inf
Mean(sum, abun) ==
    IF abun # 0 THEN BinDivInt(sum, abun)
    ELSE IF sum.k = "nan" \/ IsZero(sum) THEN FNan
    ELSE FInf(sum.neg)

\* str_round(val) of a double: "0" for inf and nan, str(val) for an
\* integer, else "%.3f" of math.ceil(val * 1000) / 1000, the product being
\* a double
str_round(val) ==
    IF val.k # "bin" THEN <<"0">>
    ELSE IF val.e >= 0
    THEN FloatText(FFin(val.neg, NatOf(Shl(val.m, val.e)), 0))
    ELSE LET c == Ceil(BinMul(val, BinOfInt(Unit)))
         IN  Fixed3Text(c, c = 0 /\ val.neg)

----------------------------------------------------------------------------
(* The lookups: abundance_map and index_map *)

\* d[k] = v of a dict d
Put(d, k, v) == [x \in DOMAIN d \cup {k} |-> IF x = k THEN v ELSE d[x]]

\* int(f) of a float: truncation towards zero; nan is a ValueError (Bad),
\* inf an OverflowError, which nothing catches ("crash")
IntOfFloat(f) ==
    CASE f.k = "nan" -> [ok |-> FALSE, crash |-> FALSE]
      [] f.k = "inf" -> [ok |-> FALSE, crash |-> TRUE]
      [] OTHER ->
           LET a == IF f.x >= 0 THEN f.m * Pow10(f.x) ELSE f.m \div Pow10(-f.x)
           IN  [ok |-> TRUE, crash |-> FALSE, v |-> IF f.neg THEN -a ELSE a]

\* the weight abundance_map takes from the second column of a coverage line
CoverageWeight(t) ==
    LET i == ParseInt(t)
        f == ParseFloat(t)
        c == IntOfFloat(f.v)
    IN  IF i.ok THEN [ok |-> TRUE, v |-> i.v]
        ELSE IF ~f.ok THEN [ok |-> TRUE, v |-> 0]
        ELSE IF c.ok THEN [ok |-> TRUE, v |-> c.v]
        ELSE IF c.crash THEN Bad
        ELSE [ok |-> TRUE, v |-> 0]

\* one line of the coverage file; Bad: the line ends the run (tabs[1] is
\* missing, or the weight is an infinite float)
CoverageLine(am, raw) ==
    LET tabs == Parts(raw)
    IN  IF Len(tabs) < 2 \/ ~CoverageWeight(tabs[2]).ok THEN Bad
        ELSE [ok |-> TRUE, v |-> Put(am, tabs[1], CoverageWeight(tabs[2]).v)]

\* len(tabs[1].split(','))
ClusterCount(t) == Len(Split(t, ","))

\* one line of a cluster file
ClusterLine(am, raw) ==
    LET tabs == Parts(raw)
        old  == IF tabs[1] \in DOMAIN am THEN am[tabs[1]] ELSE 0
    IN  IF Len(tabs) < 2 THEN Bad
        ELSE [ok |-> TRUE, v |-> Put(am, tabs[1], old + ClusterCount(tabs[2]))]

RECURSIVE LoadLines(_, _, _)
LoadLines(am, lines, cluster) ==
    IF ~am.ok \/ lines = << >> THEN am
    ELSE LoadLines(IF cluster THEN ClusterLine(am.v, Head(lines))
                   ELSE CoverageLine(am.v, Head(lines)),
                   Tail(lines), cluster)

RECURSIVE LoadClusters(_, _)
LoadClusters(am, cfiles) ==
    IF cfiles = << >> THEN am
    ELSE LoadClusters(LoadLines(am, Head(cfiles), TRUE), Tail(cfiles))

\* abundance_map(afile, cfiles) for the lines of the files
abundance_map(afile, cfiles) ==
    LoadClusters(LoadLines([ok |-> TRUE, v |-> << >>], afile, FALSE), cfiles)

\* The seek and length of an index row are unsigned integers that may
\* exceed 2^31 - 1, the largest integer of the model: they are kept as
\* their decimal text, which is also what str() writes in the report.  The
\* index files of the model hold no negative number and no length of 2^32
\* or more (the np.uint32 length would not hold it).

\* int(t) accepts t as a non-negative integer: digits after an optional
\* sign, which is "-" for a zero only, whitespace allowed around them and
\* between the sign and the digits
IsUInt(t) ==
    LET s      == Strip(t)
        signed == s # << >> /\ s[1] \in {"-", "+"}
        body   == IF signed THEN LStrip(Tail(s)) ELSE s
    IN  /\ body # << >> /\ IsDigits(body)
        /\ (signed /\ s[1] = "-") => \A i \in 1..Len(body) : body[i] = "0"

RECURSIVE StripZeros(_)
StripZeros(t) == IF Len(t) > 1 /\ t[1] = "0" THEN StripZeros(Tail(t)) ELSE t

\* str(int(t)) for such a text
UIntText(t) ==
    LET s == Strip(t)
    IN  StripZeros(IF s[1] \in {"-", "+"} THEN LStrip(Tail(s)) ELSE s)

\* characters of the md5 field of index_map's array: (np.str_, 32)
Md5Width == 32

\* a <= b for two unsigned integers given as their decimal texts
DecLeq(a, b) ==
    \/ Len(a) < Len(b)
    \/ Len(a) = Len(b) /\ (a = b \/ TextLess(a, b))

\* one row of index_map's array: a line that has not three fields leaves
\* the zero row; the md5 field keeps the first Md5Width characters
IndexRow(raw) ==
    LET tabs == Parts(raw)
    IN  IF Len(tabs) # 3 THEN [md5 |-> << >>, seek |-> <<"0">>, length |-> <<"0">>]
        ELSE [md5    |-> SubSeq(tabs[1], 1, IF Len(tabs[1]) < Md5Width THEN Len(tabs[1])
                                            ELSE Md5Width),
              seek   |-> UIntText(tabs[2]),
              length |-> UIntText(tabs[3])]

\* "wc -l" of the index file: its newline characters, one per line but for
\* a last line that no newline ends
WcLines(idx) ==
    IF idx.lines # << >> /\ ~idx.eol THEN Len(idx.lines) - 1 ELSE Len(idx.lines)

\* index_map raises: a line of three fields lies beyond the array of
\* WcLines rows (IndexError), or int() rejects one of its fields
IndexRaises(idx) ==
    /\ idx.isfile
    /\ \E i \in 1..Len(idx.lines) :
          LET tabs == Parts(idx.lines[i])
          IN  Len(tabs) = 3 /\ (i > WcLines(idx) \/ ~(IsUInt(tabs[2]) /\ IsUInt(tabs[3])))

\* index_map for the index file, None without a file: an array of WcLines
\* rows, row i filled from line i
index_map(idx) ==
    IF ~idx.isfile THEN None
    ELSE [isfile |-> TRUE, rows |-> [i \in 1..WcLines(idx) |-> IndexRow(idx.lines[i])]]

\* index columns that forget the limit on the length
IndexColumnsNoLimit(im, md5) ==
    LET match == IF im = None THEN {}
                 ELSE { i \in 1..Len(im.rows) : im.rows[i].md5 = md5 }
        row   == CHOOSE i \in match : \A j \in match : i <= j
    IN  IF match # {}
        THEN << im.rows[row].seek, im.rows[row].length >>
        ELSE << <<"0">>, <<"0">> >>

\* the (seek, length) columns of print_md5_stats, as str() writes them
IndexColumns(im, md5) ==
    LET match == IF im = None THEN {}
                 ELSE { i \in 1..Len(im.rows) : im.rows[i].md5 = md5 }
        row   == CHOOSE i \in match : \A j \in match : i <= j
    IN  IF match # {} /\ DecLeq(im.rows[row].length, NatText(MaxIndexLength))
        THEN << im.rows[row].seek, im.rows[row].length >>
        ELSE << <<"0">>, <<"0">> >>

----------------------------------------------------------------------------
(* The loop body of main, one operator per mode.  A loop state st is the   *)
(* record of pc, prev_frag, frag_keys, data, md5s and SOURCES; a step      *)
(* yields the loop state after the line.                                   *)

\* fields a line needs in each mode
Md5Fields == 12
LcaFields == 7
SourceFields == 6

\* np.zeros(1, dtype=MD5_DT) and np.zeros(1, dtype=LCA_DT)
ZeroMd5 == [abun |-> 0, esum |-> BinZero, lsum |-> BinZero, isum |-> BinZero]
ZeroLca == [abun |-> 0, esum |-> BinZero, lsum |-> BinZero, isum |-> BinZero, lvl |-> 0]

\* a fold whose sums forget the weight
FoldUnweighted(stats, w, e, l, i) ==
    [stats EXCEPT !.abun = @ + w,
                  !.esum = Float32(BinAdd(@, BinOfInt(e))),
                  !.lsum = Float32(BinAdd(@, BinOfInt(l))),
                  !.isum = Float32(BinAdd(@, i))]

\* a fold that assigns where the code adds
FoldAssign(stats, w, e, l, i) ==
    [stats EXCEPT !.abun = w,
                  !.esum = Float32(BinOfInt(w * e)),
                  !.lsum = Float32(BinOfInt(w * l)),
                  !.isum = Float32(BinMul(BinOfInt(w), i))]

\* the four += of a fold: weight w, exponent e, length l (ints) and the
\* identity i (a double); a np.float32 sum plus a Python number is a double,
\* which the store rounds to np.float32
Fold(stats, w, e, l, i) ==
    [stats EXCEPT !.abun = @ + w,
                  !.esum = Float32(BinAdd(@, BinOfInt(w * e))),
                  !.lsum = Float32(BinAdd(@, BinOfInt(w * l))),
                  !.isum = Float32(BinAdd(@, BinMul(BinOfInt(w), i)))]

\* a too short line that empties the gate
ShapeSkipClears(st) == [st EXCEPT !.frag_keys = {}]

\* a too short line: continue
ShapeSkip(st) == st

\* an empty identifier: continue
EmptySkip(st) == st

\* an error that is swallowed: the loop goes on
AbortSwallowed(st) == st

\* an uncaught exception, or os._exit(1) in get_exponent
Abort(st) == [st EXCEPT !.pc = "aborted"]

\* a gate that is never emptied
GateClearNever(st, frag) == st.frag_keys

\* a gate that is emptied for the first fragment only
GateClearFirst(st, frag) == IF st.prev_frag = << >> THEN {} ELSE st.frag_keys

\* "if frag != prev_frag: frag_keys.clear()"
GateClear(st, frag) == IF frag # st.prev_frag THEN {} ELSE st.frag_keys

\* a gate that records nothing
GateAddNothing(keys, md5) == keys

\* "frag_keys.add(md5)"
GateAdd(keys, md5) == keys \cup {md5}

\* "if md5 not in data: data[md5] = np.zeros(...)"
Bucket(d, key, zero) == IF key \in DOMAIN d THEN d ELSE Put(d, key, zero)

\* a line in md5 mode
Md5Line(st, am, parts) ==
    IF Len(parts) < Md5Fields THEN ShapeSkip(st)
    ELSE
    LET frag   == parts[1]
        md5    == parts[2]
        ident  == ParseFloat(parts[3])
        length == ParseInt(parts[4])
        e_val  == ParseFloat(parts[11])
        keys   == GateClear(st, frag)
        d1     == Bucket(st.data, md5, ZeroMd5)
        exp    == get_exponent(e_val.v)
        abun   == get_abundance(frag, am)
    IN  IF frag = << >> \/ md5 = << >> THEN EmptySkip(st)
        ELSE IF ~(ident.ok /\ length.ok /\ e_val.ok) THEN Abort(st)
        ELSE IF md5 \in keys
        THEN [st EXCEPT !.frag_keys = keys, !.prev_frag = frag]
        ELSE IF ~exp.ok
        THEN Abort([st EXCEPT !.frag_keys = keys, !.data = d1])
        ELSE IF abun < 1
        THEN [st EXCEPT !.frag_keys = keys, !.data = d1]
        ELSE [st EXCEPT !.frag_keys = GateAdd(keys, md5),
                        !.data = Put(d1, md5,
                                     Fold(d1[md5], abun, exp.v, length.v, Double(ident.v))),
                        !.prev_frag = frag]

RECURSIVE SumSeq(_)
SumSeq(q) == IF q = << >> THEN 0 ELSE Head(q) + SumSeq(Tail(q))

AllOk(q) == \A j \in 1..Len(q) : q[j].ok

\* map(lambda x: get_exponent(float(x)), e_val.split(';'))
ExponentList(t) ==
    LET fs == [j \in 1..Len(Split(t, ";")) |-> ParseFloat(Split(t, ";")[j])]
    IN  [j \in 1..Len(fs) |-> IF fs[j].ok THEN get_exponent(fs[j].v) ELSE Bad]

\* map(int, length.split(';'))
IntList(t) == [j \in 1..Len(Split(t, ";")) |-> ParseInt(Split(t, ";")[j])]

\* map(float, ident.split(';'))
FloatList(t) == [j \in 1..Len(Split(t, ";")) |-> ParseFloat(Split(t, ";")[j])]

\* sum(e_list) / len(e_list) of a list of ints: the quotient of two ints,
\* which is floored
IntAvg(q) == SumSeq([j \in 1..Len(q) |-> q[j].v]) \div Len(q)

\* sum(i_list) of a list of floats: 0 + i_list[0] + i_list[1] + ...
RECURSIVE FloatSum(_)
FloatSum(q) ==
    IF q = << >> THEN BinZero
    ELSE BinAdd(FloatSum(SubSeq(q, 1, Len(q) - 1)), Double(q[Len(q)].v))

\* sum(i_list) / len(i_list) of a list of floats, a double
FloatAvg(q) == BinDivInt(FloatSum(q), Len(q))

\* a count that adds one for a row, whatever its tokens
CountMd5sRows(ms, lca, md5) == Put(ms, lca, ms[lca] + 1)

\* "md5s[lca] += len(md5.split(';'))"
CountMd5s(ms, lca, md5) == Put(ms, lca, ms[lca] + Len(Split(md5, ";")))

\* a line in lca mode
LcaLine(st, am, parts) ==
    IF Len(parts) < LcaFields THEN ShapeSkip(st)
    ELSE
    LET md5    == parts[1]
        frag   == parts[2]
        lca    == parts[6]
        level  == ParseInt(parts[7])
        d1     == Bucket(st.data, lca, ZeroLca)
        m1     == Bucket(st.md5s, lca, 0)
        abun   == get_abundance(frag, am)
        e_list == ExponentList(parts[5])
        l_list == IntList(parts[4])
        i_list == FloatList(parts[3])
        folded == Fold(d1[lca], abun, IntAvg(e_list), IntAvg(l_list), FloatAvg(i_list))
    IN  IF frag = << >> \/ md5 = << >> \/ lca = << >> THEN EmptySkip(st)
        ELSE IF abun < 1 THEN [st EXCEPT !.data = d1, !.md5s = m1]
        ELSE IF ~(AllOk(e_list) /\ AllOk(l_list) /\ AllOk(i_list))
        THEN Abort([st EXCEPT !.data = d1, !.md5s = m1])
        ELSE IF ~level.ok
        THEN Abort([st EXCEPT !.data = Put(d1, lca, folded),
                              !.md5s = CountMd5s(m1, lca, md5)])
        ELSE [st EXCEPT !.data = Put(d1, lca, [folded EXCEPT !.lvl = level.v % Uint8]),
                        !.md5s = CountMd5s(m1, lca, md5),
                        !.prev_frag = frag]

\* an assignment where the code adds
BumpAssign(h, source, bin, w) ==
    LET row == IF source \in DOMAIN h THEN h[source] ELSE << >>
    IN  Put(h, source, Put(row, bin, w))

\* data[which][source][bin] += w on the defaultdict of defaultdict(int)
Bump(h, source, bin, w) ==
    LET row == IF source \in DOMAIN h THEN h[source] ELSE << >>
        old == IF bin \in DOMAIN row THEN row[bin] ELSE 0
    IN  Put(h, source, Put(row, bin, old + w))

\* a line in source mode
SourceLine(st, am, parts) ==
    IF Len(parts) < SourceFields THEN ShapeSkip(st)
    ELSE
    LET frag   == parts[2]
        ident  == ParseFloat(parts[3])
        e_val  == ParseFloat(parts[5])
        source == parts[6]
        exp    == get_exponent(e_val.v)
        abun   == get_abundance(frag, am)
    IN  IF frag = << >> \/ source = << >> THEN EmptySkip(st)
        ELSE IF ~(ident.ok /\ e_val.ok) THEN Abort(st)
        ELSE IF ~exp.ok THEN Abort(st)
        ELSE IF abun < 1 THEN st
        ELSE [st EXCEPT !.SOURCES = @ \cup {source},
                        !.data = [e_val |-> Bump(st.data.e_val, source, get_e_bin(exp.v), abun),
                                  ident |-> Bump(st.data.ident, source, get_i_bin(ident.v), abun)],
                        !.prev_frag = frag]

\* the body of "for line in ihdl" for a raw line
Step(m, st, am, raw) ==
    CASE m = "md5" -> Md5Line(st, am, Parts(raw))
      [] m = "lca" -> LcaLine(st, am, Parts(raw))
      [] m = "source" -> SourceLine(st, am, Parts(raw))

\* the loop state before the first line
Start(m) ==
    [pc |-> "read", prev_frag |-> << >>, frag_keys |-> {},
     data |-> IF m = "source" THEN [e_val |-> << >>, ident |-> << >>] ELSE << >>,
     md5s |-> << >>, SOURCES |-> {}]

\* the loop state after the lines of q; an aborted run reads no further
RECURSIVE Run(_, _, _)
Run(m, am, q) ==
    IF q = << >> THEN Start(m)
    ELSE LET before == Run(m, am, SubSeq(q, 1, Len(q) - 1))
         IN  IF before.pc = "aborted" THEN before
             ELSE Step(m, before, am, q[Len(q)])

----------------------------------------------------------------------------
(* The reports *)

Md5Row(d, im, md5) ==
    << md5, IntText(d[md5].abun),
       str_round(Mean(d[md5].esum, d[md5].abun)),
       str_round(Mean(d[md5].lsum, d[md5].abun)),
       str_round(Mean(d[md5].isum, d[md5].abun)),
       IndexColumns(im, md5)[1], IndexColumns(im, md5)[2] >>

print_md5_stats(d, im) ==
    [j \in 1..Cardinality(DOMAIN d) |-> Md5Row(d, im, Sorted(DOMAIN d)[j])]

LcaRow(d, ms, lca) ==
    << lca, IntText(d[lca].abun),
       str_round(Mean(d[lca].esum, d[lca].abun)),
       str_round(Mean(d[lca].lsum, d[lca].abun)),
       str_round(Mean(d[lca].isum, d[lca].abun)),
       IntText(ms[lca]), IntText(d[lca].lvl) >>

print_lca_stats(d, ms) ==
    [j \in 1..Cardinality(DOMAIN d) |-> LcaRow(d, ms, Sorted(DOMAIN d)[j])]

\* the count written for a bin: "%d" of the entry, "0" without one
BinText(row, bin) == IF bin \in DOMAIN row THEN IntText(row[bin]) ELSE <<"0">>

\* h[source] of a defaultdict of histograms: empty without an entry
HistRow(h, source) == IF source \in DOMAIN h THEN h[source] ELSE << >>

SourceRow(d, source) ==
    << source >> \o [j \in 1..Len(EVALS) |-> BinText(HistRow(d.e_val, source), EVALS[j])]
                 \o [j \in 1..Len(IDENTS) |-> BinText(HistRow(d.ident, source), IDENTS[j])]

\* the orders in which "for source in SOURCES" may visit the set: Python
\* fixes no order for a set, so every order is possible
IterationOrders(S) ==
    { q \in [1..Cardinality(S) -> S] : \A a \in S : \E j \in DOMAIN q : q[j] = a }

\* a report that skips no source
RECURSIVE SourceRowsNoSkip(_, _)
SourceRowsNoSkip(d, order) ==
    IF order = << >> THEN << >>
    ELSE << SourceRow(d, Head(order)) >> \o SourceRowsNoSkip(d, Tail(order))

RECURSIVE SourceRows(_, _)
SourceRows(d, order) ==
    IF order = << >> THEN << >>
    ELSE (IF Head(order) \in DOMAIN d.e_val THEN << SourceRow(d, Head(order)) >> ELSE << >>)
         \o SourceRows(d, Tail(order))

\* print_source_stats for one iteration order of SOURCES
print_source_stats(d, order) == SourceRows(d, order)

\* the data print_source_stats leaves: data['ident'][source] is read of a
\* defaultdict, which enters an empty histogram for every written source
\* that has none
IdentRead(d, S) ==
    [d EXCEPT !.ident = [s \in DOMAIN d.ident \cup (S \cap DOMAIN d.e_val) |->
                             HistRow(d.ident, s)]]

----------------------------------------------------------------------------
(* The inputs of the model *)

\* lines read over all input files, at most
MaxLines == 4

\* args.input
InputFiles == << "in1", "in2" >>

f1 == <<"f","1">>
f2 == <<"f","2">>
fz == <<"f","z">>
KEYA == <<"K","E","Y","A">>
KA == <<"K","A">>
T0 == <<"0">>

\* the optional files: none, or a coverage file, one cluster file and an
\* index, which give f1 the weight 2 and fz the weight 0
NoFile == [isfile |-> FALSE, lines |-> << >>, eol |-> TRUE]

NoSideFiles == [cov |-> << >>, clu |-> << >>, idx |-> NoFile]

SampleSideFiles ==
    [cov |-> << << f1, <<" ","1",".","9">> >>, << fz, T0 >> >>,
     clu |-> << << << f1, <<"a","1">> >> >> >>,
     idx |-> [isfile |-> TRUE,
              lines |-> << << KEYA, <<"1","0","0">>, <<"2","0">> >> >>,
              eol |-> TRUE]]

SideFiles == { NoSideFiles, SampleSideFiles }

\* a line of an expanded sims file for md5 mode (12 fields)
Md5Rec(frag, md5, ident, length, e_val) ==
    << frag, md5, ident, length, T0, T0, T0, T0, T0, T0, e_val, T0 >>

Md5Lines ==
    { Md5Rec(f1, KEYA, <<"1","0","0",".","0">>, <<"5","0">>, <<"1","e","-","1","0">>),
      \* a blank after the identity, a sign and a blank before the length
      Md5Rec(f2, KEYA, <<"9","7",".","5"," ">>, <<"+"," ","4","0">>, <<"0",".","0","0","1">>),
      \* a blank that starts the line
      Md5Rec(<<" ">> \o f1, KA, <<"9","7",".","3">>, <<"3","0">>, <<"3","e","-","7">>),
      Md5Rec(fz, KA, <<"1","0","0">>, <<"5","0">>, <<"1","e","-","1","0">>),
      \* eleven fields, and a blank after the last tab
      << f1, KEYA, <<"1","0","0",".","0">>, <<"5","0">>, T0, T0, T0, T0, T0, T0,
         <<"1","e","-","1","0">>, <<" ">> >>,
      \* no key
      Md5Rec(f2, << >>, <<"9","7",".","5">>, <<"4","0">>, <<"0",".","0","0","1">>),
      \* an identity that is no number
      Md5Rec(f2, KA, <<"9","x">>, <<"4","0">>, <<"0",".","0","0","1">>),
      \* an e-value in neither form
      Md5Rec(f1, KEYA, <<"1","0","0",".","0">>, <<"5","0">>, <<"n","a","n">>) }

\* lines for lca mode (md5s, frag, idents, lengths, e-values, lca, level)
LcaLines ==
    { << <<"K","A",";","K","E","Y","A">>, f1, <<"1","0","0",".","0",";","9","7",".","5">>,
         <<"5","0",";","+"," ","4","1">>, <<"1","e","-","1","0",";","1","e","-","5">>, <<"K">>, <<"3">> >>,
      \* a form feed that ends the line
      << KEYA, f2, <<"9","7",".","5">>, <<"4","0">>, <<"0",".","0","0","1">>, KA, <<"2","\f">> >>,
      << KA, f1, <<"9","7",".","3">>, <<"3","0">>, <<"3","e","-","7">>, KA, <<"5">> >>,
      << KA, fz, <<"1","0","0">>, <<"5","0">>, <<"1","e","-","1","0">>, <<"L">>, <<"1">> >>,
      \* six fields, and a blank after the last tab
      << KEYA, f2, <<"9","7",".","5">>, <<"4","0">>, <<"0",".","0","0","1">>, KA, <<" ">> >>,
      \* no taxonomy id
      << KEYA, f2, <<"9","7",".","5">>, <<"4","0">>, <<"0",".","0","0","1">>, << >>, <<"2">> >>,
      \* a length that is no number, on the fragment of weight 0 or 1
      << KEYA, fz, <<"9","7",".","5">>, <<"4","x">>, <<"0",".","0","0","1">>, KA, <<"2">> >>,
      \* an e-value in neither form
      << KEYA, f1, <<"9","7",".","5">>, <<"4","0">>, <<"i","n","f">>, <<"K">>, <<"2">> >> }

SA == <<"S","A">>
SB == <<"S","B">>
SZ == <<"S","Z">>

\* lines for source mode (md5, frag, ident, length, e-value, source)
SourceLines ==
    { << KEYA, f1, <<"1","0","0",".","0">>, <<"5","0">>, <<"1","e","-","1","0">>, SB >>,
      \* a blank before the identity
      << KEYA, f2, <<" ","9","7",".","5">>, <<"4","0">>, <<"0",".","0","0","1">>, SA >>,
      << KA, f1, <<"8","5",".","0">>, <<"3","0">>, <<"3","e","-","7">>, SA >>,
      << KA, fz, <<"1","0","0">>, <<"5","0">>, <<"1","e","-","1","0">>, SZ >>,
      \* five fields, and a blank after the last tab
      << KEYA, f2, <<"9","7",".","5">>, <<"4","0">>, <<"0",".","0","0","1">>, <<" ">> >>,
      \* no fragment
      << KEYA, << >>, <<"9","7",".","5">>, <<"4","0">>, <<"0",".","0","0","1">>, SA >>,
      \* an e-value that is no number
      << KEYA, f2, <<"9","7",".","5">>, <<"4","0">>, <<"x">>, SB >>,
      \* an e-value in neither form
      << KEYA, f1, <<"9","7",".","5">>, <<"4","0">>, <<"n","a","n">>, SA >> }

\* the sequences of at most n elements of S
SeqsUpTo(S, n) == UNION { [1..k -> S] : k \in 0..n }

Lines(m) ==
    CASE m = "md5" -> Md5Lines
      [] m = "lca" -> LcaLines
      [] m = "source" -> SourceLines

----------------------------------------------------------------------------
(* The run *)

\* the loop state held by the variables
Cur ==
    [pc |-> pc, prev_frag |-> prev_frag, frag_keys |-> frag_keys,
     data |-> data, md5s |-> md5s, SOURCES |-> SOURCES]

SetLoop(st) ==
    /\ pc' = st.pc
    /\ prev_frag' = st.prev_frag
    /\ frag_keys' = st.frag_keys
    /\ data' = st.data
    /\ md5s' = st.md5s
    /\ SOURCES' = st.SOURCES

\* no function has returned
NoReturn == [done |-> FALSE]

\* main after the arguments are parsed, for a type and the optional files
InitRun(m, files) ==
    /\ mode = m
    /\ side = files
    /\ pc = "start"
    /\ amap = << >>
    /\ imap = None
    /\ fileno = 1
    /\ stream = << >>
    /\ prev_frag = << >>
    /\ frag_keys = {}
    /\ data = << >>
    /\ md5s = << >>
    /\ SOURCES = {}
    /\ out = << >>
    /\ call = [fn |-> "main"]
    /\ ret = NoReturn

Init == \E j \in 1..Len(TYPES) : \E files \in SideFiles : InitRun(TYPES[j], files)

\* "get optional file info" and the set-up of the loop; an index,
\* coverage or cluster line that raises ends the run
LoadSideFiles ==
    /\ pc = "start"
    /\ LET am == abundance_map(side.cov, side.clu)
       IN  IF am.ok /\ ~IndexRaises(side.idx)
           THEN /\ amap' = am.v
                /\ imap' = index_map(side.idx)
                /\ SetLoop(Start(mode))
           ELSE /\ pc' = "aborted"
                /\ UNCHANGED << amap, imap, prev_frag, frag_keys, data, md5s, SOURCES >>
    /\ UNCHANGED << mode, side, fileno, stream, out, call, ret >>

\* one pass of "for line in ihdl"
ReadLine ==
    /\ pc = "read"
    /\ Len(stream) < MaxLines
    /\ \E raw \in Lines(mode) :
         /\ stream' = Append(stream, raw)
         /\ SetLoop(Step(mode, Cur, amap, raw))
    /\ UNCHANGED << mode, side, amap, imap, fileno, out, call, ret >>

\* the end of an input file that is not the last
NextFile ==
    /\ pc = "read"
    /\ fileno < Len(InputFiles)
    /\ fileno' = fileno + 1
    /\ UNCHANGED << mode, pc, side, amap, imap, stream,
                    prev_frag, frag_keys, data, md5s, SOURCES, out, call, ret >>

\* the end of the last input file; main returns before the loop when every
\* input file is empty
EndOfInput == pc = "read" /\ fileno = Len(InputFiles) /\ stream # << >>

WriteMd5Report ==
    /\ EndOfInput
    /\ mode = "md5"
    /\ out' = print_md5_stats(data, imap)
    /\ pc' = "done"
    /\ UNCHANGED << mode, side, amap, imap, fileno, stream,
                    prev_frag, frag_keys, data, md5s, SOURCES, call, ret >>

WriteLcaReport ==
    /\ EndOfInput
    /\ mode = "lca"
    /\ out' = print_lca_stats(data, md5s)
    /\ pc' = "done"
    /\ UNCHANGED << mode, side, amap, imap, fileno, stream,
                    prev_frag, frag_keys, data, md5s, SOURCES, call, ret >>

WriteSourceReport ==
    /\ EndOfInput
    /\ mode = "source"
    /\ \E order \in IterationOrders(SOURCES) : out' = print_source_stats(data, order)
    /\ data' = IdentRead(data, SOURCES)
    /\ pc' = "done"
    /\ UNCHANGED << mode, side, amap, imap, fileno, stream,
                    prev_frag, frag_keys, md5s, SOURCES, call, ret >>

Next ==
    \/ LoadSideFiles
    \/ ReadLine
    \/ NextFile
    \/ WriteMd5Report
    \/ WriteLcaReport
    \/ WriteSourceReport

Spec == Init /\ [][Next]_vars

----------------------------------------------------------------------------
(* The lookups alone: the optional files drawn from bounded sets *)

MaxCovLines == 2
MaxClusterFiles == 2
MaxClusterLines == 1

CovLines ==
    { << f1, <<"2">> >>, << f1, <<"1",".","9">> >>, << f1, <<"-","1",".","5">> >>,
      << f1, <<"x">> >>, << f1, <<"I","n","f">> >>, << fz, T0 >>,
      \* a blank before the weight, and a blank for the weight
      << f2, <<" ","3">> >>, << f1, <<" ">> >> }

ClusterLines == { << f1, <<"a","1",",","a","2">> >>, << f2, <<"a","1">> >> }

InitAmap ==
    \E cov \in SeqsUpTo(CovLines, MaxCovLines) :
      \E clu \in SeqsUpTo(SeqsUpTo(ClusterLines, MaxClusterLines), MaxClusterFiles) :
        InitRun("md5", [cov |-> cov, clu |-> clu, idx |-> NoFile])

SpecAmap == InitAmap /\ [][LoadSideFiles]_vars

----------------------------------------------------------------------------
(* The functions of the script called on their own, on arguments drawn     *)
(* from bounded sets                                                       *)

\* the state in which the function named by c is about to be called, with
\* the data, the SOURCES and the index file it reads
InitCall(c, d, S, idx) ==
    /\ mode = "md5"
    /\ side = [cov |-> << >>, clu |-> << >>, idx |-> idx]
    /\ pc = "call"
    /\ amap = << >>
    /\ imap = None
    /\ fileno = 1
    /\ stream = << >>
    /\ prev_frag = << >>
    /\ frag_keys = {}
    /\ data = d
    /\ md5s = << >>
    /\ SOURCES = S
    /\ out = << >>
    /\ call = c
    /\ ret = NoReturn

\* the function returns v
Return(v) ==
    /\ pc = "call"
    /\ pc' = "returned"
    /\ ret' = [done |-> TRUE, v |-> v]
    /\ UNCHANGED << mode, side, amap, imap, fileno, stream,
                    prev_frag, frag_keys, data, md5s, SOURCES, out, call >>

\* histograms of the sources SA and SB, as source mode builds them
SourceNames == { SA, SB }
EvalRows == { (-5 :> 1), (-10 :> 2 @@ -1000 :> 1) }
IdentRows == { (100 :> 1), (60 :> 2 @@ 97 :> 1) }
Hists(Rows) == UNION { [S -> Rows] : S \in SUBSET SourceNames }

InitPrintSourceStats ==
    \E e \in Hists(EvalRows) : \E i \in Hists(IdentRows) :
      \E S \in SUBSET SourceNames :
        /\ DOMAIN e \cup DOMAIN i \subseteq S
        /\ InitCall([fn |-> "print_source_stats"], [e_val |-> e, ident |-> i], S, NoFile)

\* print_source_stats(ohdl, data)
CallPrintSourceStats ==
    /\ pc = "call"
    /\ call.fn = "print_source_stats"
    /\ \E order \in IterationOrders(SOURCES) : out' = print_source_stats(data, order)
    /\ data' = IdentRead(data, SOURCES)
    /\ pc' = "returned"
    /\ UNCHANGED << mode, side, amap, imap, fileno, stream,
                    prev_frag, frag_keys, md5s, SOURCES, call, ret >>

\* the values str_round is called on reach MaxSum thousandths, of either
\* sign, over an abundance of up to MaxAbun
MaxSum == 4001
MaxAbun == 2

\* the Python float written num / 1000 in decimal
Thousandths(num) == Double(FFin(num < 0, IF num < 0 THEN -num ELSE num, -3))

\* the means main passes to str_round (a np.float32 sum, the nearest to a
\* number of thousandths, over an abundance), and the Python floats nearest
\* to the thousandths
StrRoundVals(top, abun) ==
    { Mean(Float32(Thousandths(num)), den) : num \in -top..top, den \in 0..abun }
      \cup { Thousandths(num) : num \in -top..top }

InitStrRound ==
    \E val \in StrRoundVals(MaxSum, MaxAbun) :
        InitCall([fn |-> "str_round", val |-> val], << >>, {}, NoFile)

\* str_round(val)
CallStrRound == call.fn = "str_round" /\ Return(str_round(call.val))

\* lines of an index file, at most
MaxIndexLines == 2

\* a key of Md5Width + 1 characters, and its first Md5Width characters
LongKey == [i \in 1..(Md5Width + 1) |-> "K"]
CutKey == [i \in 1..Md5Width |-> "K"]

\* lines of an index file (md5, seek, length)
IndexLines ==
    { << KEYA, <<"+"," ","1","0","0">>, <<"2","0">> >>,
      << KEYA, <<"7">>, <<"2","1","4","7","4","8","3","6","4","7">> >>,
      << KEYA, <<"5">>, <<"2","1","4","7","4","8","3","6","4","8">> >>,
      << KA, <<"0">>, <<"4","2","9","4","9","6","7","2","9","5">> >>,
      << KA, <<"3","0","0">>, <<"0","0","7">> >>,
      \* two fields
      << KEYA, <<"1","0","0">> >>,
      \* a seek that is no number
      << KA, <<"x">>, <<"5">> >>,
      \* a key of more than Md5Width characters
      << LongKey, <<"9">>, <<"3">> >> }

\* index files: their lines, and whether a newline ends the last line
IndexFiles ==
    { NoFile }
      \cup { [isfile |-> TRUE, lines |-> q, eol |-> eol] :
                 q \in SeqsUpTo(IndexLines, MaxIndexLines), eol \in BOOLEAN }

\* the data of md5 runs over one or two records
Md5Datas ==
    LET a == Md5Rec(f1, KEYA, <<"1","0","0",".","0">>, <<"5","0">>, <<"1","e","-","1","0">>)
        b == Md5Rec(f1, KA, <<"9","7",".","3">>, <<"3","0">>, <<"3","e","-","7">>)
        c == Md5Rec(f1, LongKey, <<"9","7",".","3">>, <<"3","0">>, <<"3","e","-","7">>)
        d == Md5Rec(f1, CutKey, <<"9","7",".","3">>, <<"3","0">>, <<"3","e","-","7">>)
    IN  { Run("md5", << >>, q).data :
              q \in { << a >>, << b >>, << a, b >>, << c >>, << d >>, << c, d, a >> } }

InitPrintMd5Stats ==
    \E d \in Md5Datas : \E idx \in IndexFiles :
        InitCall([fn |-> "print_md5_stats"], d, {}, idx)

\* imap = index_map(args.md5_index), which may raise
CallIndexMap ==
    /\ pc = "call"
    /\ call.fn = "print_md5_stats"
    /\ IF IndexRaises(side.idx)
       THEN pc' = "aborted" /\ imap' = imap
       ELSE pc' = "indexed" /\ imap' = index_map(side.idx)
    /\ UNCHANGED << mode, side, amap, fileno, stream,
                    prev_frag, frag_keys, data, md5s, SOURCES, out, call, ret >>

\* print_md5_stats(ohdl, data, imap)
CallPrintMd5Stats ==
    /\ pc = "indexed"
    /\ call.fn = "print_md5_stats"
    /\ out' = print_md5_stats(data, imap)
    /\ pc' = "returned"
    /\ UNCHANGED << mode, side, amap, imap, fileno, stream,
                    prev_frag, frag_keys, data, md5s, SOURCES, call, ret >>

\* the exponents get_e_bin is called on: -MaxExponent .. MaxExponent
MaxExponent == 1500

InitGetEBin ==
    \E v \in -MaxExponent..MaxExponent :
        InitCall([fn |-> "get_e_bin", arg |-> v], << >>, {}, NoFile)

\* get_e_bin(val)
CallGetEBin == call.fn = "get_e_bin" /\ Return(get_e_bin(call.arg))

\* the identities get_i_bin is called on: the tenths up to MaxIdentTenths,
\* of either sign, the infinities and nan
MaxIdentTenths == 1200

IdentArgs ==
    { FFin(neg, m, -1) : neg \in BOOLEAN, m \in 0..MaxIdentTenths }
        \cup { FInf(TRUE), FInf(FALSE), FNan }

InitGetIBin ==
    \E v \in IdentArgs : InitCall([fn |-> "get_i_bin", arg |-> v], << >>, {}, NoFile)

\* get_i_bin(val)
CallGetIBin == call.fn = "get_i_bin" /\ Return(get_i_bin(call.arg))

\* the e-values get_exponent is called on: the floats m * 10^x of either
\* sign for a few digit strings m and -MaxDecExp <= x <= MaxDecExp, the
\* infinities and nan
MaxDecExp == 20

Mantissas == { 0, 1, 3, 15, 125, 1001 }

ExponentArgs ==
    { FFin(neg, m, x) : neg \in BOOLEAN, m \in Mantissas, x \in -MaxDecExp..MaxDecExp }
        \cup { FInf(TRUE), FInf(FALSE), FNan }

InitGetExponent ==
    \E v \in ExponentArgs : InitCall([fn |-> "get_exponent", arg |-> v], << >>, {}, NoFile)

\* get_exponent(e_val): it returns, or it ends the process (os._exit)
CallGetExponent ==
    /\ call.fn = "get_exponent"
    /\ IF get_exponent(call.arg).ok
       THEN Return(get_exponent(call.arg).v)
       ELSE /\ pc = "call"
            /\ pc' = "aborted"
            /\ UNCHANGED << mode, side, amap, imap, fileno, stream, prev_frag,
                            frag_keys, data, md5s, SOURCES, out, call, ret >>

InitCalls ==
    \/ InitPrintSourceStats
    \/ InitStrRound
    \/ InitPrintMd5Stats
    \/ InitGetEBin
    \/ InitGetIBin
    \/ InitGetExponent

NextCalls ==
    \/ CallPrintSourceStats
    \/ CallStrRound
    \/ CallIndexMap
    \/ CallPrintMd5Stats
    \/ CallGetEBin
    \/ CallGetIBin
    \/ CallGetExponent

SpecCalls == InitCalls /\ [][NextCalls]_vars

----------------------------------------------------------------------------
(* Vocabulary of the properties *)

\* the line passes the field count and the empty-identifier checks of mode m
IsRecord(m, raw) ==
    LET p == Parts(raw)
    IN  CASE m = "md5" -> Len(p) >= 12 /\ p[1] # << >> /\ p[2] # << >>
          [] m = "lca" -> Len(p) >= 7 /\ p[1] # << >> /\ p[2] # << >> /\ p[6] # << >>
          [] m = "source" -> Len(p) >= 6 /\ p[2] # << >> /\ p[6] # << >>

\* the fragment and the key (checksum, taxonomy id, source) of a record
FragOf(m, raw) == IF m = "md5" THEN Parts(raw)[1] ELSE Parts(raw)[2]
KeyOf(m, raw) == IF m = "md5" THEN Parts(raw)[2] ELSE Parts(raw)[6]

\* the weight the abundance map resolves for a fragment of the run
Weight(f) == IF f \in DOMAIN amap THEN amap[f] ELSE 1

\* the records among the lines of q, by position
RecordsOf(m, q) == { i \in 1..Len(q) : IsRecord(m, q[i]) }

\* the abundance accumulated for a key, 0 without a bucket
Abun(key) == IF key \in DOMAIN data THEN data[key].abun ELSE 0

\* the sum of the weights of the fragments of a set of (fragment, key) pairs
RECURSIVE PairWeights(_)
PairWeights(S) ==
    IF S = {} THEN 0
    ELSE LET x == CHOOSE y \in S : TRUE IN Weight(x[1]) + PairWeights(S \ {x})

PairOf(raw) == << FragOf("md5", raw), KeyOf("md5", raw) >>

\* all records sharing a (fragment, key) pair are contiguous in q
Contiguous(q) ==
    \A i, j, k \in RecordsOf("md5", q) :
        (i < j /\ j < k /\ PairOf(q[i]) = PairOf(q[k])) => PairOf(q[j]) = PairOf(q[i])

\* the distinct (fragment, key) pairs of q with the given key whose
\* fragment has a weight of at least 1
CountedPairs(q, key) ==
    { pr \in { PairOf(q[i]) : i \in RecordsOf("md5", q) } : pr[2] = key /\ Weight(pr[1]) >= 1 }

----------------------------------------------------------------------------
(* Properties *)

\* C1: md5 mode, a stream whose records of one (fragment, key) pair are
\* contiguous: when the stream is processed, the abundance of every key
\* is the sum of the weights of its distinct (fragment, key) pairs of
\* weight >= 1; repeats of a pair count once.
C1_PairCountedOnce ==
    (mode = "md5" /\ pc = "done" /\ Contiguous(stream)) =>
        \A i \in RecordsOf("md5", stream) :
            Abun(KeyOf("md5", stream[i]))
                = PairWeights(CountedPairs(stream, KeyOf("md5", stream[i])))

\* a contiguous stream that repeats a pair and gives KEYA two fragments, of
\* weights 2 and 1
C1_Witness ==
    /\ mode = "md5" /\ pc = "done" /\ Contiguous(stream)
    /\ Len(stream) >= 3
    /\ IsRecord("md5", stream[1]) /\ stream[2] = stream[1]
    /\ Cardinality(CountedPairs(stream, KEYA)) = 2
    /\ Abun(KEYA) = 3

\* the pairs (a, b) of records of one key and of two fragments that fold
\* when every weight is 1, and the scenario  a, a, b, a
ScenarioPairs ==
    { ab \in Md5Lines \X Md5Lines :
        /\ IsRecord("md5", ab[1]) /\ IsRecord("md5", ab[2])
        /\ KeyOf("md5", ab[1]) = KeyOf("md5", ab[2])
        /\ FragOf("md5", ab[1]) # FragOf("md5", ab[2])
        /\ Run("md5", << >>, << ab[1], ab[2] >>).pc = "read" }

Scenario(ab) == << ab[1], ab[1], ab[2], ab[1] >>

\* C2 (amended): md5 mode, all weights 1: the sequence (A,X),(A,X),(B,X),
\* (A,X) folds X three times: once for the first A block (the second record
\* is skipped), once for B, and once more for the trailing, non-contiguous
\* (A,X); the abundance of X after the 1st..4th record is 1, 1, 2, 3.
C2_ScenarioFoldsThrice ==
    (mode = "md5" /\ pc \in {"read", "done"} /\ amap = << >>) =>
        \A ab \in ScenarioPairs : \A n \in 1..4 :
            stream = SubSeq(Scenario(ab), 1, n) =>
                Abun(KeyOf("md5", ab[1])) = << 1, 1, 2, 3 >>[n]

\* the whole scenario has been processed and the report written
C2_Witness ==
    /\ mode = "md5" /\ pc = "done" /\ amap = << >>
    /\ \E ab \in ScenarioPairs : stream = Scenario(ab)

\* C2 as stated: the sequence folds X exactly twice.
C2_ScenarioFoldsTwice ==
    (mode = "md5" /\ pc \in {"read", "done"} /\ amap = << >>) =>
        \A ab \in ScenarioPairs :
            stream = Scenario(ab) => Abun(KeyOf("md5", ab[1])) = 2

\* the report main writes for a loop state (one of them in source mode)
ReportsOf(m, st) ==
    CASE m = "md5" -> { print_md5_stats(st.data, imap) }
      [] m = "lca" -> { print_lca_stats(st.data, st.md5s) }
      [] m = "source" ->
           { print_source_stats(st.data, o) : o \in IterationOrders(st.SOURCES) }

\* a record whose fragment resolves to a weight below 1
ZeroWeight(m, raw) == IsRecord(m, raw) /\ Weight(FragOf(m, raw)) < 1

\* the lines of q without the records of weight below 1
WithoutZeroWeight(m, q) ==
    LET Keep(raw) == ~ZeroWeight(m, raw) IN SelectSeq(q, Keep)

\* C3: md5 and lca modes: a record of weight < 1 is skipped, so the report
\* is the report of the stream without such records, no row is written for
\* a key that only such records name, and every row has abun >= 1.
C3_ZeroWeightSkipped ==
    (mode \in {"md5", "lca"} /\ pc = "done") =>
        /\ out \in ReportsOf(mode, Run(mode, amap, WithoutZeroWeight(mode, stream)))
        /\ \A j \in 1..Len(out) : out[j][2] # <<"0">>

\* the line read by a step
LineRead == stream'[Len(stream')]

\* the step reads a line in md5 mode and folds it: the key enters an open
\* gate
FoldsMd5 ==
    /\ mode = "md5" /\ pc = "read" /\ pc' = "read"
    /\ stream' # stream
    /\ IsRecord("md5", LineRead)
    /\ ~(FragOf("md5", LineRead) = prev_frag /\ KeyOf("md5", LineRead) \in frag_keys)
    /\ KeyOf("md5", LineRead) \in frag_keys'

\* s += x of a np.float32 sum s and a double x
Plus32(s, x) == Float32(BinAdd(s, x))

\* the Stats of key k, zero if k has no bucket
StatsOf(d, k) == IF k \in DOMAIN d THEN d[k] ELSE ZeroMd5

\* C4: md5 mode: folding a record of weight w >= 1, exponent e, length l
\* and identity i under key k adds w, w*e, w*l and w*i to the abun, esum,
\* lsum and isum of k (from zero if k is new; the sums are np.float32 and
\* the additions are floating point additions) and changes the Stats of no
\* other key; no step deletes a bucket.
C4_FoldIsAdditive ==
    [][ /\ FoldsMd5 =>
            LET p == Parts(LineRead)
                k == p[2]
                w == Weight(p[1])
                e == get_exponent(ParseFloat(p[11]).v).v
                l == ParseInt(p[4]).v
                i == Double(ParseFloat(p[3]).v)
            IN  /\ w >= 1
                /\ DOMAIN data' = DOMAIN data \cup {k}
                /\ data'[k].abun = StatsOf(data, k).abun + w
                /\ data'[k].esum = Plus32(StatsOf(data, k).esum, BinOfInt(w * e))
                /\ data'[k].lsum = Plus32(StatsOf(data, k).lsum, BinOfInt(w * l))
                /\ data'[k].isum = Plus32(StatsOf(data, k).isum, BinMul(BinOfInt(w), i))
                /\ \A o \in DOMAIN data \ {k} : data'[o] = data[o]
        /\ (pc = "read" => DOMAIN data \subseteq DOMAIN data')
      ]_vars

\* a fold of weight 2 has been added to a bucket that another fold had made
C4_Witness ==
    /\ mode = "md5" /\ pc = "read"
    /\ Len(stream) = 2
    /\ FragOf("md5", stream[1]) = f2 /\ FragOf("md5", stream[2]) = f1
    /\ KEYA \in DOMAIN data /\ data[KEYA].abun = 3
    /\ data[KEYA].esum = BinOfInt(-23)

\* the records of q that mode m folds when no line ends the run: enough
\* fields, identifiers, a weight of at least 1
Qualifying(m, q) == { i \in RecordsOf(m, q) : Weight(FragOf(m, q[i])) >= 1 }

RECURSIVE LineWeights(_, _, _)
LineWeights(m, q, I) ==
    IF I = {} THEN 0
    ELSE LET i == CHOOSE j \in I : TRUE
         IN  Weight(FragOf(m, q[i])) + LineWeights(m, q, I \ {i})

EBinOf(raw) == get_e_bin(get_exponent(ParseFloat(Parts(raw)[5]).v).v)
IBinOf(raw) == get_i_bin(ParseFloat(Parts(raw)[3]).v)

HistCount(h, source, bin) ==
    IF source \in DOMAIN h /\ bin \in DOMAIN h[source] THEN h[source][bin] ELSE 0

\* C5: lca and source modes have no gate: every record with enough fields,
\* identifiers and a weight >= 1 is folded, so the abundance of a taxonomy
\* id, and each histogram bin of a source, is the sum of the weights of all
\* its records, repeats included.
C5_NoGate ==
    /\ (mode = "lca" /\ pc \in {"read", "done"}) =>
          \A i \in RecordsOf("lca", stream) :
              LET k == KeyOf("lca", stream[i])
              IN  Abun(k) = LineWeights("lca", stream,
                                { j \in Qualifying("lca", stream) : KeyOf("lca", stream[j]) = k })
    /\ (mode = "source" /\ pc \in {"read", "done"}) =>
          \A i \in RecordsOf("source", stream) :
              LET k == KeyOf("source", stream[i])
                  mine == { j \in Qualifying("source", stream) : KeyOf("source", stream[j]) = k }
              IN  /\ \A b \in { EVALS[x] : x \in 1..Len(EVALS) } :
                        HistCount(data.e_val, k, b)
                            = LineWeights("source", stream, { j \in mine : EBinOf(stream[j]) = b })
                  /\ \A b \in { IDENTS[x] : x \in 1..Len(IDENTS) } :
                        HistCount(data.ident, k, b)
                            = LineWeights("source", stream, { j \in mine : IBinOf(stream[j]) = b })

\* three identical consecutive lca records of weight 2 have given their
\* taxonomy id the abundance 6
C5_Witness ==
    /\ mode = "lca" /\ pc = "done"
    /\ Len(stream) = 3 /\ stream[2] = stream[1] /\ stream[3] = stream[1]
    /\ 1 \in Qualifying("lca", stream)
    /\ Weight(FragOf("lca", stream[1])) = 2
    /\ Abun(KeyOf("lca", stream[1])) = 6

\* the first record folded for a source
FirstFolded(source) ==
    LET mine == { i \in Qualifying("source", stream) : KeyOf("source", stream[i]) = source }
    IN  CHOOSE i \in mine : \A j \in mine : i <= j

\* C6: the rows of the source report are in discovery order: the row of s1
\* precedes the row of s2 exactly when the first folded record of s1
\* precedes that of s2; each source has at most one row.
C6_DiscoveryOrder ==
    (mode = "source" /\ pc = "done") =>
        \A a, b \in 1..Len(out) :
            a < b => FirstFolded(out[a][1]) < FirstFolded(out[b][1])

\* a numeric field of the record does not convert, or its e-value has
\* neither the exponent nor the dotted form
HasValueError(m, raw) ==
    LET p == Parts(raw)
    IN  CASE m = "md5" ->
               \/ ~ParseFloat(p[3]).ok \/ ~ParseInt(p[4]).ok \/ ~ParseFloat(p[11]).ok
               \/ ~get_exponent(ParseFloat(p[11]).v).ok
          [] m = "lca" ->
               \/ ~AllOk(ExponentList(p[5])) \/ ~AllOk(IntList(p[4]))
               \/ ~AllOk(FloatList(p[3])) \/ ~ParseInt(p[7]).ok
          [] m = "source" ->
               \/ ~ParseFloat(p[3]).ok \/ ~ParseFloat(p[5]).ok
               \/ ~get_exponent(ParseFloat(p[5]).v).ok

\* the records whose value error the run does not look at: in md5 mode a
\* record the gate suppresses whose fields convert (its e-value is inf or
\* nan), in lca mode a record of weight below 1
Unexamined(m, q, i) ==
    LET p      == Parts(q[i])
        before == Run(m, amap, SubSeq(q, 1, i - 1))
    IN  CASE m = "md5" ->
               /\ ParseFloat(p[3]).ok /\ ParseInt(p[4]).ok /\ ParseFloat(p[11]).ok
               /\ p[1] = before.prev_frag /\ p[2] \in before.frag_keys
          [] m = "lca" -> Weight(p[2]) < 1
          [] m = "source" -> FALSE

\* C7 (amended): a record with a value error that the run examines ends the
\* run at that line: it is the last line read, no later line is processed
\* and no row is ever written; rows are written only when every line of
\* every file is processed without a fatal error.  In md5 mode the e-value
\* of a record the gate suppresses, and in lca mode the fields of a record
\* of weight < 1, are not examined.
C7_FatalErrorsLeaveNoOutput ==
    pc # "start" =>
        /\ \A i \in RecordsOf(mode, stream) :
              (HasValueError(mode, stream[i]) /\ ~Unexamined(mode, stream, i))
                  => (i = Len(stream) /\ pc = "aborted")
        /\ pc = "aborted" =>
              /\ out = << >>
              /\ Len(stream) \in RecordsOf(mode, stream)
              /\ HasValueError(mode, stream[Len(stream)])
        /\ out # << >> => (pc = "done" /\ fileno = Len(InputFiles))

\* a run that folded records and then aborted
C7_Witness ==
    /\ pc = "aborted" /\ mode = "md5"
    /\ Len(stream) = 3
    /\ KEYA \in DOMAIN data /\ data[KEYA].abun >= 1
    /\ out = << >>

\* C7 as stated: every record with a value error aborts the run at its
\* line.
C7_EveryValueErrorAborts ==
    pc # "start" =>
        \A i \in RecordsOf(mode, stream) :
            HasValueError(mode, stream[i]) => (i = Len(stream) /\ pc = "aborted")

\* the lines of q without those that have too few fields
TooShort(m, raw) ==
    Len(Parts(raw)) < (CASE m = "md5" -> 12 [] m = "lca" -> 7 [] m = "source" -> 6)

WithoutShort(m, q) ==
    LET Keep(raw) == ~TooShort(m, raw) IN SelectSeq(q, Keep)

\* C8: in every mode a line with too few fields (12, 7, 6) is not fatal and
\* changes nothing: accumulators, SourceSet, prev_fragment and seen_keys
\* are after the line what they were before it, and the state of the loop
\* is the state the stream without such lines leads to.
C8_ShapeErrorsSkipped ==
    /\ [](pc \in {"read", "aborted"} =>
            Cur = Run(mode, amap, WithoutShort(mode, stream)))
    /\ [][(stream' # stream /\ TooShort(mode, LineRead)) =>
            UNCHANGED << pc, prev_frag, frag_keys, data, md5s, SOURCES, out >>]_vars

\* a short line was read while the gate held a key
C8_Witness ==
    /\ mode = "md5" /\ pc = "read"
    /\ Len(stream) = 2 /\ TooShort("md5", stream[2])
    /\ frag_keys = {KEYA} /\ prev_frag = f1

\* C9: a md5 run without side files whose only record is f1, KEYA,
\* identity 100.0, length 50, e-value 1e-10 writes the single row
\* KEYA 1 -10 50 100 0 0.
C9_ExampleRow ==
    ( /\ mode = "md5" /\ pc = "done" /\ side = NoSideFiles
      /\ stream = << Md5Rec(f1, KEYA, <<"1","0","0",".","0">>, <<"5","0">>,
                            <<"1","e","-","1","0">>) >> )
    => out = << << KEYA, <<"1">>, <<"-","1","0">>, <<"5","0">>, <<"1","0","0">>,
                   <<"0">>, <<"0">> >> >>

\* the lines of all cluster files
RECURSIVE Flatten(_)
Flatten(fs) == IF fs = << >> THEN << >> ELSE Head(fs) \o Flatten(Tail(fs))

\* the fragment ids the model looks up
FragIds == { f1, f2, fz }

\* the lines of the coverage table, and of the cluster files, that name f
CovEntries(f) == { i \in 1..Len(side.cov) : Parts(side.cov[i])[1] = f }
ClusterEntries(f) ==
    { i \in 1..Len(Flatten(side.clu)) : Parts(Flatten(side.clu)[i])[1] = f }

\* a weight text as an integer: integer text as it is, float text cut to
\* its integer part, anything else 0
WeightOfText(t) ==
    LET f == ParseFloat(t)
        a == IF f.v.x >= 0 THEN f.v.m * Pow10(f.v.x) ELSE f.v.m \div Pow10(-f.v.x)
    IN  IF ParseInt(t).ok THEN ParseInt(t).v
        ELSE IF f.ok /\ f.v.k = "fin" THEN (IF f.v.neg THEN -a ELSE a)
        ELSE 0

\* the coverage-table weight of f: that of its last line, 0 without a line
TableWeight(f) ==
    IF CovEntries(f) = {} THEN 0
    ELSE LET i == CHOOSE j \in CovEntries(f) : \A k \in CovEntries(f) : k <= j
         IN  WeightOfText(Parts(side.cov[i])[2])

\* the member ids listed for f across all cluster files
RECURSIVE MemberCount(_, _)
MemberCount(f, I) ==
    IF I = {} THEN 0
    ELSE LET i == CHOOSE j \in I : TRUE
         IN  Cardinality(Positions(Parts(Flatten(side.clu)[i])[2], ",")) + 1
             + MemberCount(f, I \ {i})

ResolvedAsClaimed(f) ==
    get_abundance(f, amap) =
        IF CovEntries(f) = {} /\ ClusterEntries(f) = {} THEN 1
        ELSE TableWeight(f) + MemberCount(f, ClusterEntries(f))

\* C10, the part the code keeps: the resolved weight of a fragment f is 1
\* when f is in neither the coverage table nor a cluster file; otherwise it is the
\* coverage-table weight of f (integer, float text cut to an integer, 0
\* when unparsable or absent) plus one for each member id listed for f in
\* the cluster files; it is an integer, and negative only when the
\* coverage table gives f a negative weight.
C10_ResolvedWeight ==
    pc = "read" =>
        \A f \in FragIds :
            /\ ResolvedAsClaimed(f)
            /\ get_abundance(f, amap) < 0 => TableWeight(f) < 0

\* f1 has a float weight in the table and two members in a cluster file
C10_Witness ==
    /\ pc = "read"
    /\ side.cov = << << f1, <<"1",".","9">> >> >>
    /\ ClusterEntries(f1) # {}
    /\ get_abundance(f1, amap) = 3
    /\ get_abundance(fz, amap) = 1

\* C10: the resolved weight of a fragment f is 1 when f is in neither the
\* coverage table nor a cluster file, otherwise the coverage-table weight
\* of f plus one for each member id listed for f in the cluster files, and
\* it is never negative.
C10_WeightNonNegative ==
    pc = "read" =>
        \A f \in FragIds : ResolvedAsClaimed(f) /\ get_abundance(f, amap) >= 0

\* the loop state before the last line read, and that line's fields
BeforeLast == Run(mode, amap, SubSeq(stream, 1, Len(stream) - 1))
LastParts == Parts(stream[Len(stream)])

\* the last line read is a lca record that was folded
LastFoldedLca ==
    /\ mode = "lca" /\ pc = "read" /\ stream # << >>
    /\ IsRecord("lca", stream[Len(stream)])
    /\ Weight(LastParts[2]) >= 1
    /\ ~HasValueError("lca", stream[Len(stream)])

\* the elements of a semicolon list
Elements(t) == Split(t, ";")

\* the last line added x to a sum of its taxonomy id
LastAdded(field, x) ==
    data[LastParts[6]][field] = Plus32(StatsOf(BeforeLast.data, LastParts[6])[field], x)

\* w times the arithmetic mean of the integers q, a double
TimesIntMean(w, q) == BinMul(BinOfInt(w), BinDivInt(BinOfInt(SumSeq(q)), Len(q)))

\* C11: lca mode: a folded record of weight w adds to esum, lsum and isum w
\* times the arithmetic mean (the sum of the elements divided by their
\* number, not floored) of the exponents, lengths and identities of its
\* semicolon lists (the sums are np.float32 and the arithmetic is floating
\* point arithmetic).
C11_MeanNotFloored ==
    LastFoldedLca =>
        LET w  == Weight(LastParts[2])
            es == Elements(LastParts[5])
            ls == Elements(LastParts[4])
            is == Elements(LastParts[3])
        IN  /\ LastAdded("esum", TimesIntMean(w, [j \in 1..Len(es) |->
                                        get_exponent(ParseFloat(es[j]).v).v]))
            /\ LastAdded("lsum", TimesIntMean(w, [j \in 1..Len(ls) |-> ParseInt(ls[j]).v]))
            /\ LastAdded("isum", BinMul(BinOfInt(w), FloatAvg(FloatList(LastParts[3]))))

\* the number of semicolon-separated tokens of a field
Tokens(t) == Cardinality(Positions(t, ";")) + 1

\* the tokens of the checksum fields of the lines I of q, every row counted
RECURSIVE TokenSum(_, _)
TokenSum(q, I) ==
    IF I = {} THEN 0
    ELSE LET i == CHOOSE j \in I : TRUE
         IN  Tokens(Parts(q[i])[1]) + TokenSum(q, I \ {i})

\* the folded rows of taxonomy id k, and all rows that carry k
FoldedRows(k) == { i \in Qualifying("lca", stream) : KeyOf("lca", stream[i]) = k }
CarryingRows(k) ==
    { i \in 1..Len(stream) : Len(Parts(stream[i])) >= 7 /\ Parts(stream[i])[6] = k }

\* C12 (amended): lca mode: the checksum count of a taxonomy id, in md5s and
\* in the report, is the sum over the folded rows of that id (at least 7
\* fields, no empty identifier, weight >= 1) of the number of tokens of the
\* row's checksum field; a repeated checksum counts every time.
C12_Md5CountOverFoldedRows ==
    (mode = "lca" /\ pc \in {"read", "done"}) =>
        /\ \A k \in DOMAIN md5s : md5s[k] = TokenSum(stream, FoldedRows(k))
        /\ \A j \in 1..Len(out) :
              out[j][6] = IntText(TokenSum(stream, FoldedRows(out[j][1])))

\* the row of two checksums was folded twice and reported with the count 4
C12_Witness ==
    /\ mode = "lca" /\ pc = "done"
    /\ Len(stream) = 2 /\ stream[1] = stream[2]
    /\ Tokens(Parts(stream[1])[1]) = 2
    /\ Len(out) = 1 /\ out[1][6] = <<"4">>

\* C12 as stated: the count reported for a taxonomy id is the sum over all
\* rows of the input that carry the id of the tokens of the checksum field.
C12_Md5CountOverAllRows ==
    (mode = "lca" /\ pc = "done") =>
        \A j \in 1..Len(out) :
            out[j][6] = IntText(TokenSum(stream, CarryingRows(out[j][1])))

\* the rows of the report that begin with source s
RowsOf(s) == { j \in 1..Len(out) : out[j][1] = s }

\* C13: print_source_stats: a source of the SourceSet without an entry in
\* the e-value histogram has no row, even with identity entries; every
\* source with an e-value entry has exactly one row: the source, one count
\* per e-bin in the order -5, -10, -20, -30, -1000, then one count per
\* identity bin in the order 60, 80, 90, 97, 100, with 0 for an absent bin.
C13_SourceReportRows ==
    (call.fn = "print_source_stats" /\ pc = "returned") =>
        /\ \A s \in SOURCES \ DOMAIN data.e_val : RowsOf(s) = {}
        /\ \A s \in SOURCES \cap DOMAIN data.e_val :
              /\ Cardinality(RowsOf(s)) = 1
              /\ \A j \in RowsOf(s) :
                    /\ Len(out[j]) = 11
                    /\ \A x \in 1..5 :
                          /\ out[j][1 + x]
                               = IntText(HistCount(data.e_val, s, << -5, -10, -20, -30, -1000 >>[x]))
                          /\ out[j][6 + x]
                               = IntText(HistCount(data.ident, s, << 60, 80, 90, 97, 100 >>[x]))
        /\ \A j \in 1..Len(out) : out[j][1] \in SOURCES

\* SB has identity entries only and no row; SA has its one row
C13_Witness ==
    /\ call.fn = "print_source_stats" /\ pc = "returned"
    /\ SOURCES = { SA, SB }
    /\ DOMAIN data.e_val = { SA } /\ DOMAIN data.ident = { SA, SB }
    /\ data.e_val[SA] = (-10 :> 2 @@ -1000 :> 1)
    /\ data.ident[SA] = (60 :> 2 @@ 97 :> 1)
    /\ out = << << SA, <<"0">>, <<"2">>, <<"0">>, <<"0">>, <<"1">>,
                   <<"2">>, <<"0">>, <<"0">>, <<"1">>, <<"0">> >> >>

\* the least integer c with c >= 1000 * x, for a finite double x (the
\* product is exact here)
CeilOf(x) == Ceil(BinNorm(x.neg, BMul(x.m, BitsOf(1000)), x.e))

\* the integer that an integral double x is
IntOf(x) == (IF x.neg THEN -1 ELSE 1) * NatOf(Shl(x.m, x.e))

\* C14: str_round of a mean x: "0" when x is infinite or not a number (as
\* 0/0 of an abundance of 0), the integer's text without a fractional part
\* when x is integral (3.0 gives "3"), else the ceiling of x to 3 decimals
\* with exactly 3 fractional digits (2.0005 gives "2.001").
C14_Round3 ==
    (call.fn = "str_round" /\ ret.done) =>
        ret.v = IF call.val.k # "bin" THEN <<"0">>
                ELSE IF call.val.e >= 0 THEN IntText(IntOf(call.val))
                ELSE Fixed3Text(CeilOf(call.val), FALSE)

\* the lines of the index file that are entries of key k
IndexEntries(k) ==
    { i \in 1..Len(side.idx.lines) :
        Len(Parts(side.idx.lines[i])) = 3 /\ Parts(side.idx.lines[i])[1] = k }

\* the first 32 characters of a text
Cut32(t) == SubSeq(t, 1, IF Len(t) < 32 THEN Len(t) ELSE 32)

\* the lines of the index file whose key, cut to 32 characters, is k
CutEntries(k) ==
    { i \in 1..Len(side.idx.lines) :
        Len(Parts(side.idx.lines[i])) = 3 /\ Cut32(Parts(side.idx.lines[i])[1]) = k }

\* the number of at most 10 digits that the digits of a text write, as the
\* pair of the number of its hundred-thousands and the rest
HiLo(t) ==
    LET s == SelectSeq(t, LAMBDA c : c \in Digits)
        n == Len(s)
    IN  << DigitsVal(SubSeq(s, 1, n - 5)), DigitsVal(SubSeq(s, IF n > 5 THEN n - 4 ELSE 1, n)) >>

\* the number written t is at most 2,147,483,647
FitsIndex(t) ==
    \/ HiLo(t)[1] < 21474
    \/ HiLo(t)[1] = 21474 /\ HiLo(t)[2] <= 83647

\* -1000.
C16_EBin ==
    (call.fn = "get_e_bin" /\ ret.done) =>
        LET v  == call.arg
            r  == ret.v
            ts == << -5, -10, -20, -30, -1000 >>
        IN  /\ \E j \in 1..5 : r = ts[j]
            /\ (v = 0 \/ v < -1000) => r = -1000
            /\ ~(v = 0 \/ v < -1000) =>
                  \E j \in 1..5 : /\ r = ts[j]
                                  /\ v >= ts[j]
                                  /\ \A k \in 1..(j - 1) : v < ts[k]
            /\ v > 0 => r = -5
            /\ v = -3 => r = -5
            /\ v = -7 => r = -10
            /\ v = -1500 => r = -1000

\* the exponent -1500, beyond the last threshold, has been binned
C16_Witness ==
    /\ call.fn = "get_e_bin" /\ ret.done
    /\ call.arg = -1500 /\ ret.v = -1000

\* an argument of get_i_bin in tenths, when it is a number
TenthsOf(p) == (IF p.neg THEN -1 ELSE 1) * p.m * Pow10(p.x + 1)

\* threshold t is >= p, and p > 100, as IEEE compares: nothing is >= nan
\* and nan > 100 is false
AtLeast(t, p) ==
    CASE p.k = "nan" -> FALSE
      [] p.k = "inf" -> p.neg
      [] OTHER -> 10 * t >= TenthsOf(p)

Above100(p) ==
    CASE p.k = "nan" -> FALSE
      [] p.k = "inf" -> ~p.neg
      [] OTHER -> TenthsOf(p) > 1000

IdentThresholds == { 60, 80, 90, 97, 100 }

\* the part of C17 that the code keeps as stated
IBinValue(p, r) ==
    /\ r \in IdentThresholds
    /\ (\E t \in IdentThresholds : AtLeast(t, p)) =>
          /\ AtLeast(r, p)
          /\ \A t \in IdentThresholds : AtLeast(t, p) => r <= t
    /\ (\A t \in IdentThresholds : ~AtLeast(t, p)) => r = 60
    /\ p = FFin(FALSE, 85, 0) => r = 90
    /\ p = FFin(FALSE, 100, 0) => r = 100
    /\ p = FFin(FALSE, 45, 0) => r = 60

\* C17 (amended): get_i_bin(p) is the smallest of 60, 80, 90, 97, 100 that
\* is >= p, and 60 when none is >= p; i_bin(85) = 90, i_bin(100) = 100,
\* i_bin(45) = 60; the result is one of the five thresholds; the fallback
\* is taken only for p > 100 or for a p that is not a number.
C17_IBin ==
    (call.fn = "get_i_bin" /\ ret.done) =>
        /\ IBinValue(call.arg, ret.v)
        /\ (\A t \in IdentThresholds : ~AtLeast(t, call.arg))
              => (Above100(call.arg) \/ call.arg.k = "nan")

\* 100.1, above every threshold, has taken the fallback
C17_Witness ==
    /\ call.fn = "get_i_bin" /\ ret.done
    /\ call.arg = FFin(FALSE, 1001, -1) /\ ret.v = 60

\* C17 as stated: as above, and the fallback is taken only for p > 100.
C17_FallbackOnlyAbove100 ==
    (call.fn = "get_i_bin" /\ ret.done) =>
        /\ IBinValue(call.arg, ret.v)
        /\ (\A t \in IdentThresholds : ~AtLeast(t, call.arg)) => Above100(call.arg)

\* text t has the form <digit>[.<digit>]e[sign]<digits>, and then its sign
\* and the magnitude of its (0-padded) exponent
ExpForm(t) ==
    /\ Cardinality(Positions(t, "e")) = 1
    /\ LET e    == CHOOSE i \in Positions(t, "e") : TRUE
           mant == SubSeq(t, 1, e - 1)
           rest == SubSeq(t, e + 1, Len(t))
           digs == IF rest # << >> /\ rest[1] \in {"-", "+"} THEN Tail(rest) ELSE rest
       IN  /\ \/ Len(mant) = 1 /\ mant[1] \in Digits
              \/ Len(mant) = 3 /\ mant[1] \in Digits /\ mant[2] = "." /\ mant[3] \in Digits
           /\ digs # << >> /\ IsDigits(digs)

ExpSign(t) == t[(CHOOSE i \in Positions(t, "e") : TRUE) + 1]

ExpMagnitude(t) ==
    LET e    == CHOOSE i \in Positions(t, "e") : TRUE
        rest == SubSeq(t, e + 1, Len(t))
    IN  DigitsVal(IF rest[1] \in {"-", "+"} THEN Tail(rest) ELSE rest)

\* the characters of t after its '.'
AfterDot(t) == Len(t) - (CHOOSE i \in Positions(t, ".") : TRUE)

\* C18: get_exponent: an e-value equal to 0 gives 0; an e-value whose text
\* (str(e_val)) has the form <digit>[.<digit>]e[sign][0-padded exponent]
\* gives the magnitude of the exponent, negated exactly when the sign is
\* '-'; any other text with exactly one '.' gives minus the number of
\* characters after the '.'; a text of neither form ends the run and no
\* value is returned.  The e-values 1e-5, 0.0001 and 0 give -5, -4 and 0.
C18_ExponentOf ==
    (call.fn = "get_exponent" /\ pc # "call") =>
        LET e == call.arg
            t == FloatText(e)
        IN  /\ IF e.k = "fin" /\ e.m = 0 THEN ret.done /\ ret.v = 0
               ELSE IF ExpForm(t)
               THEN ret.done /\ ret.v = IF ExpSign(t) = "-" THEN -ExpMagnitude(t)
                                        ELSE ExpMagnitude(t)
               ELSE IF Cardinality(Positions(t, ".")) = 1
               THEN ret.done /\ ret.v = -AfterDot(t)
               ELSE pc = "aborted" /\ ~ret.done
            /\ e = ParseFloat(<<"1","e","-","5">>).v => ret.done /\ ret.v = -5
            /\ e = ParseFloat(<<"0",".","0","0","0","1">>).v => ret.done /\ ret.v = -4
            /\ e = ParseFloat(<<"0">>).v => ret.done /\ ret.v = 0

\* 1.25e-05 has the exponent form but for its mantissa of three digits:
\* the six characters after its '.' are counted
C18_Witness ==
    /\ call.fn = "get_exponent" /\ ret.done
    /\ FloatText(call.arg) = <<"1",".","2","5","e","-","0","5">>
    /\ ret.v = -6

\* the abundance of key k after the first n lines of the stream
AbunAfter(n, k) == StatsOf(Run(mode, amap, SubSeq(stream, 1, n)).data, k).abun

\* line i of the stream was folded: it raised the abundance of its key
FoldedAt(i) ==
    /\ IsRecord("md5", stream[i])
    /\ AbunAfter(i, KeyOf("md5", stream[i])) > AbunAfter(i - 1, KeyOf("md5", stream[i]))

\* the well-formed records of the stream whose fragment has a weight >= 1
WellFormed ==
    { i \in RecordsOf("md5", stream) :
        ~HasValueError("md5", stream[i]) /\ Weight(FragOf("md5", stream[i])) >= 1 }

\* C19: md5 mode, any stream: every key in frag_keys was folded from a
\* record of the fragment prev_frag; a well-formed record of weight >= 1 is
\* skipped by the gate only if an earlier record of the same (fragment,
\* key) pair was folded; so the abundance of a key is never less than the
\* sum of the weights of its distinct pairs of weight >= 1 seen so far,
\* also with zero-weight, short and empty-identifier lines in between.
C19_NoFalseDedup ==
    mode = "md5" /\ pc # "start" =>
        /\ \A k \in frag_keys :
              \E i \in 1..Len(stream) :
                  /\ FoldedAt(i)
                  /\ FragOf("md5", stream[i]) = prev_frag
                  /\ KeyOf("md5", stream[i]) = k
        /\ \A i \in WellFormed :
              ~FoldedAt(i) =>
                  \E j \in 1..(i - 1) : FoldedAt(j) /\ PairOf(stream[j]) = PairOf(stream[i])
        /\ \A i \in WellFormed :
              LET k == KeyOf("md5", stream[i])
              IN  Abun(k) >= PairWeights({ PairOf(stream[j]) :
                                             j \in { x \in WellFormed : KeyOf("md5", stream[x]) = k } })

\* a record of weight 0 stands between two blocks of the pair (f1, KEYA):
\* the second block is folded again and its repeat is skipped
C19_Witness ==
    /\ mode = "md5" /\ pc = "read"
    /\ Len(stream) = 4
    /\ PairOf(stream[1]) = << f1, KEYA >> /\ 1 \in WellFormed
    /\ ZeroWeight("md5", stream[2])
    /\ stream[3] = stream[1] /\ stream[4] = stream[1]
    /\ FoldedAt(3) /\ ~FoldedAt(4)
    /\ frag_keys = { KEYA } /\ prev_frag = f1
    /\ Abun(KEYA) = 4

\* the sum of the counts of a histogram row
RECURSIVE RowSum(_)
RowSum(row) ==
    IF DOMAIN row = {} THEN 0
    ELSE LET b == CHOOSE x \in DOMAIN row : TRUE
         IN  row[b] + RowSum([x \in DOMAIN row \ {b} |-> row[x]])

\* the records folded for a source: enough fields, identifiers, values that
\* convert, a weight >= 1
FoldedFor(s) ==
    { i \in Qualifying("source", stream) :
        KeyOf("source", stream[i]) = s /\ ~HasValueError("source", stream[i]) }

\* C20: source mode, after any lines: the sources with an e-value entry,
\* the sources with an identity entry and SOURCES are one set; for each of
\* them the e-bin counts and the identity-bin counts both sum to the total
\* weight of the records folded for it; so no report of a run skips a
\* source of SOURCES.
C20_HistogramsConserved ==
    (mode = "source" /\ pc # "start") =>
        /\ DOMAIN data.e_val = SOURCES
        /\ DOMAIN data.ident = SOURCES
        /\ \A s \in SOURCES :
              /\ RowSum(data.e_val[s]) = LineWeights("source", stream, FoldedFor(s))
              /\ RowSum(data.ident[s]) = LineWeights("source", stream, FoldedFor(s))
        /\ pc = "done" => Len(out) = Cardinality(SOURCES)

\* two sources, one of them folded twice with the weights 2 and 1, and a
\* record of weight 0 of a third: two rows are written
C20_Witness ==
    /\ mode = "source" /\ pc = "done"
    /\ Len(stream) = 4
    /\ SOURCES = { SA, SB }
    /\ \E i \in 1..4 : ZeroWeight("source", stream[i])
    /\ RowSum(data.e_val[SA]) = 3 /\ Cardinality(DOMAIN data.e_val[SA]) = 2
    /\ RowSum(data.ident[SA]) = 3
    /\ Len(out) = 2

====
